---- MODULE Spec2Model ----
(***************************************************************************)
(* Model of the miner-monitoring core of pirantelx/mine:                   *)
(*   - WhatsminerClient._send_command (src/miner_client.py), the           *)
(*     line-delimited JSON exchange with one device;                       *)
(*   - MonitoringService (src/app/services/monitoring.py) and              *)
(*     MonitoringAgent (src/agent/agent.py), the two polling loops.        *)
(* Python semantics assumed: CPython >= 3.8 (asyncio.CancelledError is a   *)
(* BaseException, so "except Exception" does not catch a cancellation).    *)
(***************************************************************************)
EXTENDS Integers, Sequences, FiniteSets, TLC

VARIABLES
    \* ---- one WhatsminerClient._send_command call and the device it talks to
    pc,                \* position of the call: idle, connect, send, recv, returned
    sock,              \* the call's socket: none, open, closed
    response,          \* the receive buffer `response` (a sequence of bytes)
    stream,            \* bytes the device has still to send
    mode,              \* what the device does (see DeviceModes)
    ret,               \* value returned by the call
    log,               \* last logger.error message of the call
    timedOut,          \* the read loop was left through socket.timeout
    finalParses,       \* json.loads calls made after the last recv of the call
    recvs,             \* history: parity of the number of chunks line 41 has returned
    opens,             \* history: sockets the call has created
    connects,          \* history: sock.connect calls of the call
    sends,             \* history: sock.sendall calls of the call
    closes,            \* history: sock.close calls of the call
    retEmptyTimeout,   \* history: what a call returned on read timeout, buffer empty
    retPartialTimeout, \* history: what a call returned on read timeout, buffer not empty
    \* ---- the polling orchestrators
    impl,              \* which program runs: "service" (MonitoringService) or "agent" (MonitoringAgent)
    is_running,        \* MonitoringService.is_running / MonitoringAgent.running
    loop,              \* the polling-loop task: none, created, gather, sleep, recover, exited, cancelled
    slept,             \* ticks of the current asyncio.sleep that have elapsed
    registry,          \* miners table (absent, active, inactive) / discovered_miners
    unreachable,       \* the devices on which every command fails
    task,              \* the current cycle's poll_miner task of each device
    orphans,           \* per device: worker threads still in _send_command whose task was cancelled
    manual,            \* the poll_miner task of a POST /api/miners/{id}/poll request
    successful,        \* poll_all_miners' local `successful` (0 until it is computed)
    failed,            \* poll_all_miners' local `failed` (0 until it is computed)
    cycleParity,       \* history: parity of the number of cycles started
    stopSignalled,     \* history: stop() has been called
    delta,             \* history: how the devices of the cycle in progress differ from
                       \* those of the cycle before it: "added", "removed"
    samples,           \* the devices a MinerStats row was stored for since the
                       \* cycle in progress started
    \* ---- one command sequence against one device (get_all_data, agent poll_miner)
    seqPc,             \* position of the sequence: idle, running, done
    outcome,           \* what _send_command would yield for each command, in order
    attempted,         \* the commands sent to the device so far, in order
    recorded,          \* the values the sequence has got for its awaits so far
    seqResult,         \* the value the sequence returned
    \* ---- one scan_network call (src/app/services/network_scanner.py)
    scPc,              \* position of the call: idle, probing, identifying, done, rejected
    network,           \* the `network` argument (see NetworkInputs)
    dev,               \* what is at each candidate address (see DeviceKinds)
    st,                \* per address: how far the scan has got with it
    queries,           \* per address: summary queries sent to it by the scan
    records,           \* per address: its entry in discovered_miners, if any
    lastRecords,       \* history: the records of the scan before this one, when this
                       \* one is a scan of the same network with the same devices
    appends,           \* per address: dicts appended to discovered_miners for it
    \* ---- the enumeration of a network's addresses (scan_network lines 84-92)
    enPc,              \* idle, parsed (network_obj exists), listed (ip_list exists)
    cidr,              \* the argument: an address and a prefix length
    network_obj,       \* the network address and prefix length of network_obj
    ip_list,           \* the candidate addresses, in order
    \* ---- the telemetry parsers (parse_summary_data, parse_stats_data)
    pPc,               \* idle, parsed (called once), reparsed (called again)
    pFunc,             \* which parser: "summary" or "stats"
    pInput,            \* the response handed to the parser
    pOut,              \* what the first call returned or raised
    pAfter,            \* the response object after the first call
    pOut2,             \* what the second call, on the same object, returned
    agOut,             \* what the agent's poll_miner extracts from the same response
    \* ---- start() and stop() of MonitoringService, called in any order
    stale,             \* history: a loop task that had not ended was replaced by start()
    lastCall,          \* history: the last start() or stop() and whether it was ignored
    starts,            \* history: the loop tasks created so far
    \* ---- the connections of one poll task (get_all_data over _send_command)
    gaPc,              \* get_all_data of one poll task: idle, await (a command is in the executor), done
    gaCmd,             \* the command being awaited, as an index into Commands
    worker,            \* the executor thread of that command: none, queued, open, exchanged, closed
    gaOut,             \* what the exchange of the command in the executor gave
    gaOpen,            \* the commands whose socket is open
    gaTrace,           \* history: sockets opened and closed by the task, in order
    gaRes,             \* the values the awaits have returned so far
    \* ---- the stored effects of one poll_miner (monitoring.py lines 32-99)
    pmPc,              \* poll_miner: idle, fetch, parse, session, query, build, commit, committed, returned
    allData,           \* what get_all_data returned to this poll_miner
    session,           \* the database session of this poll_miner: none, open, closed
    pending,           \* the session holds an uncommitted row and last_seen
    rows,              \* telemetry rows of the device in the database
    lastSeen,          \* times the device's stored last_seen has been updated
    rowsBefore,        \* history: rows when poll_miner was called
    seenBefore,        \* history: lastSeen when poll_miner was called
    pmRet,             \* what poll_miner returned
    \* ---- the agent's registry under its two loops (agent.py lines 53-85, 170-272)
    discovered_miners, \* the agent's registry: a set of <<ip, last_seen>> entries
    agScan,            \* run_scan_loop: ready, scanning (awaiting the executor), sleep
    scanNo,            \* scans started so far; the last_seen stamp of the entries a scan writes
    agPoll,            \* run_poll_loop: ready, iterating (the for loop of poll_all_miners), gather, sleep
    todo,              \* addresses the for loop has still to visit
    pollTasks,         \* addresses the cycle has created a poll task for
    regAtStart,        \* history: the registry when the for loop began
    everAdded,         \* history: addresses a scan has added to the registry
    dueAtStart,        \* history: everAdded when the for loop began
    max_workers,       \* settings.max_workers, read once when the service is constructed
    exPc,              \* position of the cycle whose executor calls are followed
    exTask,            \* per device: the state of its poll task's executor call, and the command
    inPc,              \* position of the ingestion request being served
    handler,           \* the endpoint serving it: add_discovered_miners or sync_agent_data
    request,           \* the list of discovered miners of the request body
    item,              \* index of the list element the for loop is at
    minerRows,         \* per address: committed rows of the miners table with that (ip_address, port)
    newRows            \* per address: Miner objects added to the session and not written yet

clientVars == <<pc, sock, response, stream, mode, ret, log, timedOut, finalParses,
                recvs, opens, connects, sends, closes,
                retEmptyTimeout, retPartialTimeout>>

pollVars == <<impl, is_running, loop, slept, registry, unreachable, task, orphans,
              manual, successful, failed, cycleParity, stopSignalled, delta, samples>>

seqVars == <<seqPc, outcome, attempted, recorded, seqResult>>

scanVars == <<scPc, network, dev, st, queries, records, lastRecords, appends>>

enumVars == <<enPc, cidr, network_obj, ip_list>>

parseVars == <<pPc, pFunc, pInput, pOut, pAfter, pOut2, agOut>>

lifeVars == <<stale, lastCall, starts>>

connVars == <<gaPc, gaCmd, worker, gaOut, gaOpen, gaTrace, gaRes>>

storeVars == <<pmPc, allData, session, pending, rows, lastSeen, rowsBefore, seenBefore, pmRet>>

agentVars == <<discovered_miners, agScan, scanNo, agPoll, todo, pollTasks, regAtStart, everAdded, dueAtStart>>

execVars == <<max_workers, exPc, exTask>>

ingestVars == <<inPc, handler, request, item, minerRows, newRows>>

vars == <<clientVars, pollVars, seqVars, scanVars, enumVars, parseVars,
         lifeVars,
         connVars,
         storeVars,
         agentVars,
         execVars,
         ingestVars>>

\* What the steps of one component leave alone.
nonClientVars == <<pollVars, seqVars, scanVars, enumVars, parseVars,
    lifeVars,
    connVars,
    storeVars,
    agentVars,
    execVars,
    ingestVars>>
nonPollVars == <<clientVars, seqVars, scanVars, enumVars, parseVars,
    lifeVars,
    connVars,
    storeVars,
    agentVars,
    execVars,
    ingestVars>>
nonSeqVars == <<clientVars, pollVars, scanVars, enumVars, parseVars,
    lifeVars,
    connVars,
    storeVars,
    agentVars,
    execVars,
    ingestVars>>
nonScanVars == <<clientVars, pollVars, seqVars, enumVars, parseVars,
    lifeVars,
    connVars,
    storeVars,
    agentVars,
    execVars,
    ingestVars>>
nonEnumVars == <<clientVars, pollVars, seqVars, scanVars, parseVars,
    lifeVars,
    connVars,
    storeVars,
    agentVars,
    execVars,
    ingestVars>>
nonParseVars == <<clientVars, pollVars, seqVars, scanVars, enumVars,
    lifeVars,
    connVars,
    storeVars,
    agentVars,
    execVars,
    ingestVars>>
nonPollLifeVars ==
    <<clientVars, seqVars, scanVars, enumVars, parseVars, connVars,
    storeVars,
    agentVars,
    execVars,
    ingestVars>>
nonLifeVars ==
    <<clientVars, pollVars, seqVars, scanVars, enumVars, parseVars,
    connVars,
    storeVars,
    agentVars,
    execVars,
    ingestVars>>
nonConnVars ==
    <<clientVars, pollVars, seqVars, scanVars, enumVars, parseVars, lifeVars,
    storeVars,
    agentVars,
    execVars,
    ingestVars>>
nonStoreVars ==
    <<clientVars, pollVars, seqVars, scanVars, enumVars, parseVars, lifeVars, connVars,
    agentVars,
    execVars,
    ingestVars>>
nonAgentVars ==
    <<clientVars, pollVars, seqVars, scanVars, enumVars, parseVars, lifeVars, connVars, storeVars,
    execVars,
    ingestVars>>
nonExecVars ==
    <<clientVars, pollVars, seqVars, scanVars, enumVars, parseVars, lifeVars, connVars, storeVars, agentVars,
    ingestVars>>
nonIngestVars ==
    <<clientVars, pollVars, seqVars, scanVars, enumVars, parseVars, lifeVars, connVars, storeVars, agentVars, execVars>>

-----------------------------------------------------------------------------
(* Bounds of the model *)

\* longest byte stream a device sends before it goes silent, closes, resets
\* or starts streaming garbage
MaxStream == 3

\* number of devices
NumMiners == 2

\* length of the inter-cycle sleep (settings.polling_interval, poll_interval),
\* in ticks of the model's clock
SleepTicks == 2

\* length of the agent's recovery sleep (60 s), in ticks of the model's clock
RecoveryTicks == 1

\* number of host addresses in the scanned block
NumAddrs == 3

\* size of the scanner's thread pools (max_workers, 50 in the program)
MaxWorkers == 2

\* threads of the event loop's default executor (min(32, cpu_count + 4) in
\* CPython, so 5 at least)
DefaultPoolThreads == 2

\* largest value settings.max_workers is configured with
MaxSetting == 3

\* max_workers of Settings when the environment does not set it
DefaultMaxWorkers == 50

\* longest list of discovered miners in a request body
MaxList == 2

\* number of bits of an address (32 for IPv4)
AddrBits == 4

\* largest number a device reports in a field
MaxNum == 1

\* loop tasks one service creates (start() calls that are not ignored)
MaxStarts == 2

\* telemetry rows stored for one device
MaxRows == 3

\* scans the agent's scan loop starts
MaxScans == 2

(* Program constants *)

\* sock.recv(4096)
RecvSize == 4096

-----------------------------------------------------------------------------
(* Bytes and json.loads *)

\* "{" and "}" delimit a JSON object, "s" is JSON whitespace (the "\n" that ends
\* a line), "z" is any byte no JSON text holds outside a string (the NUL that
\* cgminer-style firmware appends, a stray letter), "x" is a byte that is not
\* valid UTF-8 (0xFF).
Bytes == {"{", "}", "s", "z", "x"}

Streams == UNION {[1..n -> Bytes] : n \in 0..MaxStream}

Min(a, b) == IF a < b THEN a ELSE b

\* The decoder's scan of one JSON value: the index of the value's last byte when
\* the bytes from i on (at nesting depth d) complete a value, 0 when they do not
\* (JSONDecodeError: expecting value, or unterminated).
RECURSIVE ValueEnd(_, _, _)
ValueEnd(b, i, d) ==
    IF i > Len(b) THEN 0
    ELSE IF b[i] = "{" THEN ValueEnd(b, i + 1, d + 1)
    ELSE IF b[i] = "}" THEN
        IF d = 0 THEN 0 ELSE IF d = 1 THEN i ELSE ValueEnd(b, i + 1, d - 1)
    ELSE IF b[i] = "s" THEN ValueEnd(b, i + 1, d)
    ELSE 0

IsNotSpace(c) == c # "s"

\* json.loads(response.decode('utf-8')): decode the bytes (UnicodeDecodeError,
\* which is not a JSONDecodeError, when they are not UTF-8), decode one value,
\* then require that only whitespace follows it ("Extra data" otherwise).  The
\* value is the document without its insignificant whitespace.
JsonLoads(b) ==
    LET e == ValueEnd(b, 1, 0) IN
    IF \E j \in 1..Len(b) : b[j] = "x"
    THEN [ok |-> FALSE, raises |-> TRUE, value |-> <<>>]
    ELSE IF e = 0 THEN [ok |-> FALSE, raises |-> FALSE, value |-> <<>>]
    ELSE IF \A j \in (e + 1)..Len(b) : b[j] = "s"
         THEN [ok |-> TRUE, raises |-> FALSE,
               value |-> SelectSeq(SubSeq(b, 1, e), IsNotSpace)]
         ELSE [ok |-> FALSE, raises |-> FALSE, value |-> <<>>]

NoneRet == [kind |-> "None", value |-> <<>>]
DataRet(v) == [kind |-> "data", value |-> v]

-----------------------------------------------------------------------------
(* The device *)

\* refuse:    the port is closed, connect is refused
\* blackhole: connect gets no answer within the connect timeout
\* silent:    accepts, sends `stream`, then sends nothing more
\* close:     accepts, sends `stream`, then closes the connection
\* reset:     accepts, sends `stream`, then resets the connection
\* endless:   accepts, sends `stream`, then keeps sending "z" bytes for ever,
\*            each within the read timeout
DeviceModes == {"refuse", "blackhole", "silent", "close", "reset", "endless"}

-----------------------------------------------------------------------------
(* WhatsminerClient._send_command *)

\* Lines 61-67, the code after the read loop.
PostLoop(resp) ==
    IF resp # <<>> THEN
        LET r == JsonLoads(resp) IN
        IF r.ok THEN [ret |-> DataRet(r.value), log |-> "none", parses |-> 1]
        ELSE [ret |-> NoneRet, log |-> "Incomplete JSON response", parses |-> 1]
    ELSE [ret |-> NoneRet, log |-> "none", parses |-> 0]

\* Lines 52-59 and what follows the break: the socket.timeout handler of the
\* read loop.
OnReadTimeout(resp) ==
    IF resp # <<>> THEN
        LET r == JsonLoads(resp) IN
        IF r.ok THEN [ret |-> DataRet(r.value), log |-> "none", parses |-> 1]
        ELSE LET p == PostLoop(resp) IN
             [ret |-> p.ret, log |-> p.log, parses |-> 1 + p.parses]
    ELSE PostLoop(resp)

\* Lines 44-51: the chunk is appended and the whole buffer parsed.
AfterChunk(resp, chunk) == JsonLoads(resp \o chunk)

\* Finite representation of the buffer: a byte received after the buffer holds
\* more than MaxStream bytes is left out of the model's copy of the buffer.  This
\* happens only for an "endless" device, whose buffer then already holds a "z",
\* so that json.loads fails on the buffer with or without the byte.
Buffered(resp, chunk) ==
    IF Len(resp) > MaxStream THEN resp ELSE resp \o chunk

\* (mutant) the return paths do not close the socket
ReturnLeavesOpen(r, l) ==
    /\ pc' = "returned"
    /\ ret' = r
    /\ log' = l
    /\ UNCHANGED <<sock, closes>>

\* A return of _send_command: the finally clause of lines 69-70 closes the
\* socket, then the value is returned (l is what the handlers of lines 72-83
\* logged).
Return(r, l) ==
    /\ pc' = "returned"
    /\ sock' = "closed"
    /\ closes' = closes + 1
    /\ ret' = r
    /\ log' = l

\* A caller calls _send_command against some device: lines 22-23.
Call ==
    /\ pc = "idle"
    /\ \E m \in DeviceModes, s \in Streams :
        /\ (m \in {"refuse", "blackhole"} => s = <<>>)
        /\ mode' = m
        /\ stream' = s
    /\ pc' = "connect"
    /\ sock' = "open"
    /\ response' = <<>>
    /\ ret' = NoneRet
    /\ log' = "none"
    /\ timedOut' = FALSE
    /\ finalParses' = 0
    /\ recvs' = 0
    /\ opens' = 1
    /\ connects' = 0
    /\ sends' = 0
    /\ closes' = 0
    /\ UNCHANGED <<retEmptyTimeout, retPartialTimeout>>
    /\ UNCHANGED nonClientVars

\* (mutant) the outcome of connect is not looked at
ConnectUnchecked ==
    /\ pc = "connect"
    /\ pc' = "send"
    /\ connects' = connects + 1
    /\ UNCHANGED <<sock, ret, log, closes, response, stream, mode, timedOut,
                   finalParses, recvs, opens, sends, retEmptyTimeout,
                   retPartialTimeout>>
    /\ UNCHANGED nonClientVars

\* Line 26: sock.connect under the timeout set at line 23.  A refusal raises
\* socket.error (lines 75-77), no answer raises socket.timeout (lines 72-74).
Connect ==
    /\ pc = "connect"
    /\ CASE mode = "refuse" -> Return(NoneRet, "Socket error")
         [] mode = "blackhole" -> Return(NoneRet, "Timeout connecting")
         [] OTHER -> /\ pc' = "send"
                     /\ UNCHANGED <<sock, ret, log, closes>>
    /\ connects' = connects + 1
    /\ UNCHANGED <<response, stream, mode, timedOut, finalParses, recvs,
                   opens, sends, retEmptyTimeout, retPartialTimeout>>
    /\ UNCHANGED nonClientVars

\* Lines 29-36.
Send ==
    /\ pc = "send"
    /\ \/ /\ pc' = "recv"
          /\ UNCHANGED <<sock, ret, log, closes>>
       \/ /\ mode = "reset"
          /\ stream = <<>>
          /\ Return(NoneRet, "Socket error")
    /\ sends' = sends + 1
    /\ UNCHANGED <<response, stream, mode, timedOut, finalParses, recvs,
                   opens, connects, retEmptyTimeout, retPartialTimeout>>
    /\ UNCHANGED nonClientVars

\* Lines 42-51 for a chunk that line 41 returned.  A buffer that is not UTF-8
\* makes line 47 raise UnicodeDecodeError, which the handler of lines 81-83
\* catches.
OnChunk(chunk) ==
    /\ response' = Buffered(response, chunk)
    /\ LET r == AfterChunk(response, chunk) IN
       IF r.ok THEN Return(DataRet(r.value), "none")
       ELSE IF r.raises THEN Return(NoneRet, "Unexpected error")
       ELSE UNCHANGED <<pc, sock, ret, log, closes>>

\* Line 41 returns a chunk: the next n bytes of the device's stream, or one more
\* byte of an endless stream.
RecvChunk ==
    /\ pc = "recv"
    /\ \/ /\ stream # <<>>
          /\ \E n \in 1..Min(Len(stream), RecvSize) :
                /\ OnChunk(SubSeq(stream, 1, n))
                /\ stream' = SubSeq(stream, n + 1, Len(stream))
       \/ /\ stream = <<>>
          /\ mode = "endless"
          /\ OnChunk(<<"z">>)
          /\ stream' = stream
    /\ recvs' = 1 - recvs
    /\ UNCHANGED <<mode, timedOut, finalParses, opens, connects, sends,
                   retEmptyTimeout, retPartialTimeout>>
    /\ UNCHANGED nonClientVars

\* Line 41 returns b"": lines 42-43, then 61-67.
RecvEof ==
    /\ pc = "recv"
    /\ stream = <<>>
    /\ mode = "close"
    /\ LET p == PostLoop(response) IN
        /\ Return(p.ret, p.log)
        /\ finalParses' = p.parses
    /\ UNCHANGED <<response, stream, mode, timedOut, recvs, opens, connects, sends,
                   retEmptyTimeout, retPartialTimeout>>
    /\ UNCHANGED nonClientVars

\* Line 41 raises socket.timeout: lines 52-59, then 61-67.
RecvTimeout ==
    /\ pc = "recv"
    /\ stream = <<>>
    /\ mode = "silent"
    /\ timedOut' = TRUE
    /\ LET p == OnReadTimeout(response) IN
        /\ Return(p.ret, p.log)
        /\ finalParses' = p.parses
        /\ IF response = <<>>
           THEN /\ retEmptyTimeout' = p.ret.kind
                /\ UNCHANGED retPartialTimeout
           ELSE /\ retPartialTimeout' = p.ret.kind
                /\ UNCHANGED retEmptyTimeout
    /\ UNCHANGED <<response, stream, mode, recvs, opens, connects, sends>>
    /\ UNCHANGED nonClientVars

\* Line 41 raises another socket error (connection reset): lines 69-70, 75-77.
RecvError ==
    /\ pc = "recv"
    /\ stream = <<>>
    /\ mode = "reset"
    /\ Return(NoneRet, "Socket error")
    /\ UNCHANGED <<response, stream, mode, timedOut, finalParses, recvs,
                   opens, connects, sends, retEmptyTimeout, retPartialTimeout>>
    /\ UNCHANGED nonClientVars

\* The caller (get_summary .. get_devs, line 89) has the value: the frame of the
\* call, with its socket object and its buffer, is gone, and the client can be
\* called again.
CallDone ==
    /\ pc = "returned"
    /\ pc' = "idle"
    /\ sock' = "none"
    /\ response' = <<>>
    /\ stream' = <<>>
    /\ mode' = "silent"
    /\ ret' = NoneRet
    /\ log' = "none"
    /\ timedOut' = FALSE
    /\ finalParses' = 0
    /\ recvs' = 0
    /\ opens' = 0
    /\ connects' = 0
    /\ sends' = 0
    /\ closes' = 0
    /\ UNCHANGED <<retEmptyTimeout, retPartialTimeout>>
    /\ UNCHANGED nonClientVars

ClientStep == Connect \/ Send \/ RecvChunk \/ RecvEof \/ RecvTimeout \/ RecvError

ClientIdle ==
    /\ pc = "idle"
    /\ sock = "none"
    /\ response = <<>>
    /\ stream = <<>>
    /\ mode = "silent"
    /\ ret = NoneRet
    /\ log = "none"
    /\ timedOut = FALSE
    /\ finalParses = 0
    /\ recvs = 0
    /\ opens = 0
    /\ connects = 0
    /\ sends = 0
    /\ closes = 0
    /\ retEmptyTimeout = "unset"
    /\ retPartialTimeout = "unset"

-----------------------------------------------------------------------------
(* The polling orchestrators: MonitoringService and MonitoringAgent *)

\* A device is identified with its address (host, port).
Miners == 1..NumMiners

\* get_all_data, lines 112-115: one _send_command per command, in this order.
Commands == <<"summary", "stats", "pools", "devs">>

\* Executor calls one poll_miner task awaits: the four commands of get_all_data
\* (service), client.get_summary and client.get_stats (agent).
NumCalls(i) == IF i = "service" THEN Len(Commands) ELSE 2

NoTask == [st |-> "none", cmd |-> 0, res |-> <<>>, result |-> "none"]
NewTask == [st |-> "running", cmd |-> 1, res |-> <<>>, result |-> "none"]

\* asyncio.sleep(settings.polling_interval) / asyncio.sleep(self.poll_interval)
Interval == SleepTicks

\* The sleep of the except branch: settings.polling_interval (service), 60 (agent).
RecoveryDelay(i) == IF i = "service" THEN SleepTicks ELSE RecoveryTicks

\* What an executor call of a poll task yields.  Service: _send_command's value,
\* None whenever the exchange fails.  Agent: run_in_executor is handed the
\* coroutine functions get_summary / get_stats, so the call yields a coroutine
\* object and no exchange takes place.
CommandResult(i, m) ==
    IF i = "agent" THEN "coroutine"
    ELSE IF m \in unreachable THEN "None" ELSE "data"

\* WhatsminerClient.get_all_data: no command raises (_send_command catches
\* every exception), so the value is always the dict of lines 117-123.
GetAllData(res) ==
    [kind |-> "dict", summary |-> res[1], stats |-> res[2],
     pools |-> res[3], devs |-> res[4]]

\* (mutant) the miner is not read again before its sample is stored
PollMinerNoReread(m, res, reg) ==
    IF GetAllData(res).kind = "None" THEN "no data" ELSE "True"

\* MonitoringService.poll_miner once get_all_data has returned: lines 45-89.
\* parse_summary_data(None) and parse_stats_data(None) are {}, every column of
\* MinerStats but miner_id is nullable, so a row of absent values is stored.
PollMiner(m, res, reg) ==
    LET all_data == GetAllData(res) IN
    IF all_data.kind = "None" THEN "no data"
    ELSE IF reg[m] = "absent" THEN "not found"
    ELSE "True"

\* MonitoringAgent.poll_miner: lines 96-97, then the record of lines 152-165.
AgentPollMiner(res) ==
    IF res[1] = "None" THEN "None" ELSE "stats"

\* (mutant) the loop never tests the flag
WhileTrue == TRUE

\* The loop condition: `while self.is_running` / `while self.running`.
WhileRunning == is_running

\* (mutant) the list read by the first cycle is kept for the later ones
ActiveMinersCached(reg) ==
    IF loop = "created" THEN {m \in Miners : reg[m] = "active"}
    ELSE {m \in Miners : task[m].st # "none"}

\* db.query(Miner).filter(Miner.is_active == True).all() /
\* self.discovered_miners.items(): read when the cycle starts.
ActiveMiners(reg) == {m \in Miners : reg[m] = "active"}

\* (mutant) the exception ends the loop
LoopDiesOnError == "exited"

\* Where the loop goes when an exception escapes poll_all_miners: the except
\* branch, which sleeps.
LoopAfterError == "recover"

\* The devices the current cycle has a task for.
Polled == {m \in Miners : task[m].st # "none"}

\* How the devices `now` differ from the devices `before`.
Delta(before, now) ==
    (IF now \ before # {} THEN {"added"} ELSE {})
    \cup (IF before \ now # {} THEN {"removed"} ELSE {})

\* Worker threads executing _send_command against device m.
InFlight(m) ==
    orphans[m]
    + (IF impl = "service" /\ task[m].st = "running" THEN 1 ELSE 0)
    + (IF manual.st = "running" /\ manual.miner = m THEN 1 ELSE 0)

NoManual == [st |-> "none", miner |-> 0, cmd |-> 0, res |-> <<>>]

\* (mutant) the loop does not wait for its sleep to elapse
LoopReadyAtOnce == loop \in {"created", "sleep", "recover"}

\* The loop task is at a point where it runs the while test: just created, or
\* its sleep has elapsed in full.
LoopReady ==
    \/ loop = "created"
    \/ loop = "sleep" /\ slept = Interval
    \/ loop = "recover" /\ slept = RecoveryDelay(impl)

\* Task.cancel() on the loop task: gather cancels the unfinished poll tasks.  A
\* thread already running _send_command cannot be cancelled and runs on.
CancelledTasks == [m \in Miners |->
    IF task[m].st = "running" THEN [task[m] EXCEPT !.st = "cancelled"] ELSE task[m]]

\* (mutant) cancelling a task also kills the thread that serves it
ThreadsKilled == orphans

OrphansAfterCancel == [m \in Miners |->
    IF impl = "service" /\ task[m].st = "running" THEN orphans[m] + 1 ELSE orphans[m]]

\* MonitoringService.start (lines 136-145), called once, by startup_event;
\* MonitoringAgent.start (lines 263-272), awaited once, by main().
Start ==
    /\ loop = "none"
    /\ ~is_running
    /\ is_running' = TRUE
    /\ loop' = "created"
    /\ UNCHANGED <<impl, slept, registry, unreachable, task, orphans, manual,
                   successful, failed, cycleParity, stopSignalled, delta, samples>>
    /\ UNCHANGED nonPollVars

\* MonitoringService.stop (lines 147-155): clears the flag and cancels the loop
\* task.  MonitoringAgent.stop (lines 274-277): clears the flag.
Stop ==
    /\ is_running
    /\ is_running' = FALSE
    /\ stopSignalled' = TRUE
    /\ IF impl = "service"
       THEN /\ loop' = "cancelled"
            /\ task' = CancelledTasks
            /\ orphans' = OrphansAfterCancel
       ELSE UNCHANGED <<loop, task, orphans>>
    /\ UNCHANGED <<impl, slept, registry, unreachable, manual, successful, failed,
                   cycleParity, delta, samples>>
    /\ UNCHANGED nonPollVars

\* The while test fails: the loop returns.
LoopExit ==
    /\ LoopReady
    /\ ~WhileRunning
    /\ loop' = "exited"
    /\ UNCHANGED <<impl, is_running, slept, registry, unreachable, task, orphans,
                   manual, successful, failed, cycleParity, stopSignalled, delta, samples>>
    /\ UNCHANGED nonPollVars

\* poll_all_miners up to its await: the active list is read and one task per
\* device is created; with no device the cycle is over at once.
CycleStart ==
    /\ LoopReady
    /\ WhileRunning
    /\ cycleParity' = 1 - cycleParity
    /\ slept' = 0
    /\ LET miners == ActiveMiners(registry) IN
       IF miners = {}
       THEN /\ loop' = "sleep"
            /\ task' = [m \in Miners |-> NoTask]
       ELSE /\ loop' = "gather"
            /\ task' = [m \in Miners |-> IF m \in miners THEN NewTask ELSE NoTask]
    /\ successful' = 0
    /\ failed' = 0
    /\ UNCHANGED <<impl, is_running, registry, unreachable, orphans, manual,
                   stopSignalled>>
    /\ delta' = IF loop = "sleep" THEN Delta(Polled, ActiveMiners(registry)) ELSE {}
    /\ samples' = {}
    /\ UNCHANGED nonPollVars

\* An exception escapes poll_all_miners (the session or the query of lines
\* 103-105 fails): the except branch of the loop catches it.
CycleRaises ==
    /\ LoopReady
    /\ WhileRunning
    /\ cycleParity' = 1 - cycleParity
    /\ slept' = 0
    /\ loop' = LoopAfterError
    /\ task' = [m \in Miners |-> NoTask]
    /\ successful' = 0
    /\ failed' = 0
    /\ UNCHANGED <<impl, is_running, registry, unreachable, orphans, manual,
                   stopSignalled>>
    /\ delta' = {}
    /\ samples' = {}
    /\ UNCHANGED nonPollVars

\* db.add(miner_stats); db.commit() (lines 85-86), reached only by the
\* poll_miner that returns True.
Committed(m, result) ==
    IF impl = "service" /\ result = "True" THEN samples \cup {m} ELSE samples

\* The executor call a poll task awaits returns and the task runs to its next
\* await (the next command) or to its end (the sample is stored).
TaskStep(m) ==
    /\ loop = "gather"
    /\ task[m].st = "running"
    /\ LET t == task[m]
           res == Append(t.res, CommandResult(impl, m))
           result == IF impl = "service" THEN PollMiner(m, res, registry)
                     ELSE AgentPollMiner(res)
       IN IF t.cmd < NumCalls(impl)
          THEN /\ task' = [task EXCEPT ![m] = [t EXCEPT !.cmd = t.cmd + 1, !.res = res]]
               /\ UNCHANGED samples
          ELSE /\ task' = [task EXCEPT ![m] =
                    [st |-> "done", cmd |-> t.cmd, res |-> res, result |-> result]]
               /\ samples' = Committed(m, result)
    /\ UNCHANGED <<impl, is_running, loop, slept, registry, unreachable, orphans,
                   manual, successful, failed, cycleParity, stopSignalled, delta>>
    /\ UNCHANGED nonPollVars

\* gather returns: lines 119-124 (service), 181-184 (agent).
CycleEnd ==
    /\ loop = "gather"
    /\ \A m \in Miners : task[m].st \in {"none", "done"}
    /\ LET ok == {m \in Polled : task[m].result \in {"True", "stats"}} IN
        /\ successful' = Cardinality(ok)
        /\ failed' = IF impl = "service"
                     THEN Cardinality(Polled) - Cardinality(ok)
                     ELSE failed
    /\ loop' = "sleep"
    /\ slept' = 0
    /\ UNCHANGED <<impl, is_running, registry, unreachable, task, orphans, manual,
                   cycleParity, stopSignalled, delta, samples>>
    /\ UNCHANGED nonPollVars

\* Time passes while the loop sleeps.
SleepTick ==
    /\ \/ loop = "sleep" /\ slept < Interval
       \/ loop = "recover" /\ slept < RecoveryDelay(impl)
    /\ slept' = slept + 1
    /\ UNCHANGED <<impl, is_running, loop, registry, unreachable, task, orphans,
                   manual, successful, failed, cycleParity, stopSignalled, delta, samples>>
    /\ UNCHANGED nonPollVars

\* A worker thread whose task was cancelled comes to the end of _send_command.
OrphanFinish(m) ==
    /\ orphans[m] > 0
    /\ orphans' = [orphans EXCEPT ![m] = @ - 1]
    /\ UNCHANGED <<impl, is_running, loop, slept, registry, unreachable, task,
                   manual, successful, failed, cycleParity, stopSignalled, delta, samples>>
    /\ UNCHANGED nonPollVars

\* The HTTP handlers run between startup_event, which starts the service, and
\* shutdown_event, which stops it.
ServerUp == impl = "service" /\ is_running

SetRegistry(m, v) ==
    /\ ServerUp
    /\ registry' = [registry EXCEPT ![m] = v]
    /\ UNCHANGED <<impl, is_running, loop, slept, unreachable, task, orphans,
                   manual, successful, failed, cycleParity, stopSignalled, delta, samples>>
    /\ UNCHANGED nonPollVars

\* POST /api/miners
CreateMiner(m) ==
    /\ registry[m] = "absent"
    /\ \E v \in {"active", "inactive"} : SetRegistry(m, v)

\* DELETE /api/miners/{miner_id}
DeleteMiner(m) ==
    /\ registry[m] # "absent"
    /\ SetRegistry(m, "absent")

\* PUT /api/miners/{miner_id} with is_active
UpdateMiner(m) ==
    /\ registry[m] # "absent"
    /\ SetRegistry(m, IF registry[m] = "active" THEN "inactive" ELSE "active")

\* POST /api/miners/{miner_id}/poll: poll_miner is awaited in the request's own
\* task, beside whatever the polling loop is doing.
ManualPollStart(m) ==
    /\ ServerUp
    /\ registry[m] # "absent"
    /\ manual.st = "none"
    /\ manual' = [st |-> "running", miner |-> m, cmd |-> 1, res |-> <<>>]
    /\ UNCHANGED <<impl, is_running, loop, slept, registry, unreachable, task,
                   orphans, successful, failed, cycleParity, stopSignalled, delta, samples>>
    /\ UNCHANGED nonPollVars

\* The manual poll's executor call returns: next command, or the end of
\* poll_miner and of the request.
ManualStep ==
    /\ manual.st = "running"
    /\ LET res == Append(manual.res, CommandResult(impl, manual.miner)) IN
       IF manual.cmd < NumCalls(impl)
       THEN /\ manual' = [manual EXCEPT !.cmd = @ + 1, !.res = res]
            /\ UNCHANGED samples
       ELSE /\ manual' = NoManual
            /\ samples' = Committed(manual.miner, PollMiner(manual.miner, res, registry))
    /\ UNCHANGED <<impl, is_running, loop, slept, registry, unreachable, task,
                   orphans, successful, failed, cycleParity, stopSignalled, delta>>
    /\ UNCHANGED nonPollVars

-----------------------------------------------------------------------------
(* One command sequence: get_all_data (service), poll_miner (agent) *)

\* What _send_command can yield for a command: the decoded answer, or None.
Outcomes == {"data", "None"}

\* The command the k-th await of the sequence sends.  get_all_data awaits
\* get_summary .. get_devs, each of which runs _send_command in the executor
\* (src/miner_client.py 85-115).  The agent hands the coroutine functions
\* get_summary and get_stats to run_in_executor (src/agent/agent.py 95, 100):
\* the thread creates a coroutine object that is never run, and nothing is
\* sent.
Sent(i, k) == IF i = "service" THEN <<Commands[k]>> ELSE <<>>

\* The value the k-th await yields.
Awaited(i, k) == IF i = "service" THEN outcome[k] ELSE "coroutine"

SeqIdle ==
    /\ seqPc = "idle"
    /\ outcome = <<>>
    /\ attempted = <<>>
    /\ recorded = <<>>
    /\ seqResult = "none"

\* The sequence is called against a device that answers or fails each command.
SeqStart ==
    /\ seqPc = "idle"
    /\ seqPc' = "running"
    /\ outcome' \in [1..Len(Commands) -> Outcomes]
    /\ attempted' = <<>>
    /\ recorded' = <<>>
    /\ seqResult' = "none"
    /\ UNCHANGED nonSeqVars

\* The next await of the sequence.  The agent returns None after the first
\* await when `not summary` (lines 96-97).
SeqStep ==
    /\ seqPc = "running"
    /\ Len(recorded) < NumCalls(impl)
    /\ ~(impl = "agent" /\ Len(recorded) = 1 /\ recorded[1] = "None")
    /\ LET k == Len(recorded) + 1 IN
        /\ attempted' = attempted \o Sent(impl, k)
        /\ recorded' = Append(recorded, Awaited(impl, k))
    /\ UNCHANGED <<seqPc, outcome, seqResult>>
    /\ UNCHANGED nonSeqVars

\* The sequence returns: the dict of get_all_data (lines 117-123), the record
\* or None of the agent's poll_miner.
SeqEnd ==
    /\ seqPc = "running"
    /\ \/ Len(recorded) = NumCalls(impl)
       \/ impl = "agent" /\ Len(recorded) = 1 /\ recorded[1] = "None"
    /\ seqPc' = "done"
    /\ seqResult' = IF impl = "service" THEN GetAllData(recorded).kind
                    ELSE AgentPollMiner(recorded)
    /\ UNCHANGED <<outcome, attempted, recorded>>
    /\ UNCHANGED nonSeqVars

\* The caller has the value; the sequence can be called again.
SeqDone ==
    /\ seqPc = "done"
    /\ seqPc' = "idle"
    /\ outcome' = <<>>
    /\ attempted' = <<>>
    /\ recorded' = <<>>
    /\ seqResult' = "none"
    /\ UNCHANGED nonSeqVars

-----------------------------------------------------------------------------
(* scan_network (src/app/services/network_scanner.py) *)

\* network_obj.hosts(): the candidate addresses.
Addrs == 1..NumAddrs

\* The `network` argument: a network ("192.168.1.0/24"), an address with host
\* bits set ("192.168.1.7/24"), a prefix out of range ("192.168.1.0/33"), text
\* that is no address ("lan"), the empty string.
NetworkInputs == {"net", "hostbits", "badprefix", "notaddress", "empty"}

\* (mutant) the argument is not validated
IpNetworkUnchecked(n) == TRUE

\* ipaddress.ip_network(network, strict=False) returns (TRUE) or raises
\* ValueError (FALSE): line 84.  strict=False accepts host bits.
IpNetwork(n) == n \in {"net", "hostbits"}

\* closed:  nothing listens on the port
\* error:   the probe's socket call raises (no route, no descriptors)
\* silent:  the port accepts connections, no command is answered
\* answers: the port accepts connections, summary is answered by a Whatsminer
\* unknown: the port accepts connections, summary is answered with a response
\*          that matches no vendor pattern
DeviceKinds == {"closed", "error", "silent", "answers", "unknown"}

\* check_port, lines 17-27: connect_ex returned 0; any exception gives False.
CheckPort(kind) == kind \in {"silent", "answers", "unknown"}

\* identify_miner line 38: get_summary is a coroutine function and is called
\* without await, so the value is a coroutine object and no query is made.
GetSummaryNotAwaited(kind) == "coroutine"

\* Summary queries sent to get the value v.
SummarySent(v) == IF v = "coroutine" THEN 0 ELSE 1

\* (mutant) a device that gave no summary is reported as accessible
IdentifyMinerAccepts(kind) ==
    [accessible |-> TRUE, raised |-> FALSE, manufacturer |-> "Unknown"]

\* identify_miner, lines 35-67.  A falsy summary falls through to line 67; on
\* a coroutine object `"Type" in summary` raises TypeError, caught at lines
\* 63-65; a dict gives (manufacturer, model, True).  `raised` is whether an
\* exception leaves identify_miner.
\* A summary dict whose "Type" names a Whatsminer gives that manufacturer
\* (lines 46-56), any other dict gives "Unknown" (lines 59-60).
IdentifyMiner(kind) ==
    LET summary == GetSummaryNotAwaited(kind) IN
    IF summary = "None"
    THEN [accessible |-> FALSE, raised |-> FALSE, manufacturer |-> "None"]
    ELSE IF summary = "coroutine"
    THEN [accessible |-> FALSE, raised |-> FALSE, manufacturer |-> "None"]
    ELSE [accessible |-> TRUE, raised |-> FALSE,
          manufacturer |-> IF summary = "whatsminer" THEN "Whatsminer" ELSE "Unknown"]

NoRecord ==
    [present |-> FALSE, is_accessible |-> FALSE, manufacturer |-> "None",
     error |-> "None"]

\* (mutant) an identification made while the pool is full fails
RecordUnderLoad(r) ==
    IF Cardinality({a \in Addrs : st[a] \in {"probing", "identifying"}}) = MaxWorkers
    THEN [present |-> TRUE, is_accessible |-> FALSE, manufacturer |-> "None",
          error |-> "str(e)"]
    ELSE [present |-> TRUE, is_accessible |-> FALSE, manufacturer |-> "None",
          error |-> "Could not identify miner type"]

\* The dict appended for an address: lines 126-155.
Record(r) ==
    IF r.raised
    THEN [present |-> TRUE, is_accessible |-> FALSE, manufacturer |-> "None",
          error |-> "str(e)"]
    ELSE IF r.accessible
    THEN [present |-> TRUE, is_accessible |-> TRUE, manufacturer |-> r.manufacturer,
          error |-> "None"]
    ELSE [present |-> TRUE, is_accessible |-> FALSE, manufacturer |-> "None",
          error |-> "Could not identify miner type"]

\* Worker threads of the current pool that are running a call.
Busy == Cardinality({a \in Addrs : st[a] \in {"probing", "identifying"}})

\* Socket operations of the scan in flight: one per running check_port, one per
\* running identify_miner that has sent a query.
SocketsInFlight ==
    Cardinality({a \in Addrs : st[a] = "probing"})
    + Cardinality({a \in Addrs : st[a] = "identifying" /\ queries[a] > 0})

\* (mutant) the pool starts a thread for every submitted call
WorkerFreeAlways == TRUE

\* ThreadPoolExecutor(max_workers=max_workers): a submitted call starts only
\* when fewer than max_workers threads are running one.
WorkerFree == Busy < MaxWorkers

\* (mutant) an append made while other workers are running is lost
AppendLost(n) == IF Busy > 1 THEN n ELSE n + 1

\* discovered_miners.append({...}) (lines 127, 137, 148): made by the thread
\* that runs the as_completed loop, once for the future it was handed.
Appended(n) == n + 1

\* No scan precedes the scan in progress.
NoEarlierScan ==
    [a \in Addrs |-> [present |-> FALSE, is_accessible |-> FALSE,
                      manufacturer |-> "None", error |-> "no scan"]]

ScanIdle ==
    /\ scPc = "idle"
    /\ network = "net"
    /\ dev = [a \in Addrs |-> "closed"]
    /\ st = [a \in Addrs |-> "out"]
    /\ queries = [a \in Addrs |-> 0]
    /\ records = [a \in Addrs |-> NoRecord]
    /\ lastRecords = NoEarlierScan
    /\ appends = [a \in Addrs |-> 0]

\* scan_network is called: lines 83-101.  An invalid argument raises ValueError
\* at line 86; otherwise a check_port call is submitted for every host address.
ScanCall ==
    /\ scPc = "idle"
    /\ \E n \in NetworkInputs, d \in [Addrs -> DeviceKinds] :
        /\ network' = n
        /\ dev' = d
        /\ IF IpNetwork(n)
           THEN /\ scPc' = "probing"
                /\ st' = [a \in Addrs |-> "queued"]
           ELSE /\ scPc' = "rejected"
                /\ st' = [a \in Addrs |-> "out"]
    /\ queries' = [a \in Addrs |-> 0]
    /\ records' = [a \in Addrs |-> NoRecord]
    /\ lastRecords' = NoEarlierScan
    /\ appends' = [a \in Addrs |-> 0]
    /\ UNCHANGED nonScanVars

\* scan_network is called again with the same network while the devices are as
\* they were: lines 83-101, discovered_miners is a new list (line 89).
Rescan ==
    /\ scPc = "done"
    /\ scPc' = "probing"
    /\ st' = [a \in Addrs |-> "queued"]
    /\ queries' = [a \in Addrs |-> 0]
    /\ records' = [a \in Addrs |-> NoRecord]
    /\ lastRecords' = records
    /\ appends' = [a \in Addrs |-> 0]
    /\ UNCHANGED <<network, dev>>
    /\ UNCHANGED nonScanVars

\* A pool thread starts check_port for an address.
ProbeBegin(a) ==
    /\ scPc = "probing"
    /\ st[a] = "queued"
    /\ WorkerFree
    /\ st' = [st EXCEPT ![a] = "probing"]
    /\ UNCHANGED <<scPc, network, dev, queries, records, lastRecords, appends>>
    /\ UNCHANGED nonScanVars

\* check_port returns and as_completed hands the future to lines 106-112.
ProbeEnd(a) ==
    /\ scPc = "probing"
    /\ st[a] = "probing"
    /\ st' = [st EXCEPT ![a] = IF CheckPort(dev[a]) THEN "open" ELSE "notopen"]
    /\ UNCHANGED <<scPc, network, dev, queries, records, lastRecords, appends>>
    /\ UNCHANGED nonScanVars

\* (mutant) a probe that raised makes the scan give up
PhaseTwoAbortsOnError ==
    /\ scPc = "probing"
    /\ \A a \in Addrs : st[a] \in {"open", "notopen"}
    /\ scPc' = IF \E a \in Addrs : dev[a] = "error" THEN "rejected" ELSE "identifying"
    /\ st' = [a \in Addrs |-> IF st[a] = "open" THEN "submitted" ELSE st[a]]
    /\ UNCHANGED <<network, dev, queries, records, lastRecords, appends>>
    /\ UNCHANGED nonScanVars

\* Every probe is done, the first pool is shut down, and identify_miner is
\* submitted to the second pool for every address of open_ports: lines 113-121.
PhaseTwoEnds ==
    /\ scPc = "probing"
    /\ \A a \in Addrs : st[a] \in {"open", "notopen"}
    /\ scPc' = "identifying"
    /\ st' = [a \in Addrs |-> IF st[a] = "open" THEN "submitted" ELSE st[a]]
    /\ UNCHANGED <<network, dev, queries, records, lastRecords, appends>>
    /\ UNCHANGED nonScanVars

\* A pool thread starts identify_miner for an address: lines 36-38.
IdentBegin(a) ==
    /\ scPc = "identifying"
    /\ st[a] = "submitted"
    /\ WorkerFree
    /\ st' = [st EXCEPT ![a] = "identifying"]
    /\ queries' = [queries EXCEPT ![a] = @ + SummarySent(GetSummaryNotAwaited(dev[a]))]
    /\ UNCHANGED <<scPc, network, dev, records, lastRecords, appends>>
    /\ UNCHANGED nonScanVars

\* identify_miner returns and as_completed hands the future to lines 124-155.
IdentEnd(a) ==
    /\ scPc = "identifying"
    /\ st[a] = "identifying"
    /\ st' = [st EXCEPT ![a] = "identified"]
    /\ records' = [records EXCEPT ![a] = Record(IdentifyMiner(dev[a]))]
    /\ appends' = [appends EXCEPT ![a] = Appended(appends[a])]
    /\ UNCHANGED <<scPc, network, dev, queries, lastRecords>>
    /\ UNCHANGED nonScanVars

\* Lines 157-158.
ScanReturn ==
    /\ scPc = "identifying"
    /\ \A a \in Addrs : st[a] \in {"notopen", "identified"}
    /\ scPc' = "done"
    /\ UNCHANGED <<network, dev, st, queries, records, lastRecords, appends>>
    /\ UNCHANGED nonScanVars

\* The caller has the list or the ValueError (src/app/main.py 955-967); another
\* scan can be asked for.
ScanDone ==
    /\ scPc \in {"done", "rejected"}
    /\ scPc' = "idle"
    /\ network' = "net"
    /\ dev' = [a \in Addrs |-> "closed"]
    /\ st' = [a \in Addrs |-> "out"]
    /\ queries' = [a \in Addrs |-> 0]
    /\ records' = [a \in Addrs |-> NoRecord]
    /\ lastRecords' = NoEarlierScan
    /\ appends' = [a \in Addrs |-> 0]
    /\ UNCHANGED nonScanVars

\* A step of a scan in progress.
ScanStep ==
    \/ \E a \in Addrs : ProbeBegin(a)
    \/ \E a \in Addrs : ProbeEnd(a)
    \/ PhaseTwoEnds
    \/ \E a \in Addrs : IdentBegin(a)
    \/ \E a \in Addrs : IdentEnd(a)
    \/ ScanReturn

NextScan == ScanCall \/ ScanStep \/ ScanDone \/ Rescan

-----------------------------------------------------------------------------
(* The addresses of a network: ipaddress.ip_network and hosts() *)

IpAddresses == 0..(2^AddrBits - 1)

Prefixes == 0..AddrBits

\* Number of addresses of a block of prefix length n.
BlockSize(n) == 2^(AddrBits - n)

\* ip_network(network, strict=False): the host bits of the address are
\* cleared (line 84).
NetworkOf(c) ==
    [address |-> c.address - (c.address % BlockSize(c.prefix)), prefix |-> c.prefix]

BroadcastOf(net) == net.address + BlockSize(net.prefix) - 1

\* (mutant) every address of the block is a candidate
AllAddresses(net) ==
    [i \in 1..BlockSize(net.prefix) |-> net.address + i - 1]

\* network_obj.hosts() as a list (line 92): the addresses between the network
\* address and the broadcast address, in order; both addresses of a block of
\* two, the one address of a block of one.
Hosts(net) ==
    IF BlockSize(net.prefix) <= 2
    THEN [i \in 1..BlockSize(net.prefix) |-> net.address + i - 1]
    ELSE [i \in 1..(BlockSize(net.prefix) - 2) |-> net.address + i]

EnumIdle ==
    /\ enPc = "idle"
    /\ cidr = [address |-> 0, prefix |-> 0]
    /\ network_obj = [address |-> 0, prefix |-> 0]
    /\ ip_list = <<>>

\* Line 84 for a valid argument.
ParseNetwork ==
    /\ enPc = "idle"
    /\ \E a \in IpAddresses, n \in Prefixes :
        /\ cidr' = [address |-> a, prefix |-> n]
        /\ network_obj' = NetworkOf([address |-> a, prefix |-> n])
    /\ enPc' = "parsed"
    /\ ip_list' = <<>>
    /\ UNCHANGED nonEnumVars

\* Line 92.
ListHosts ==
    /\ enPc = "parsed"
    /\ ip_list' = Hosts(network_obj)
    /\ enPc' = "listed"
    /\ UNCHANGED <<cidr, network_obj>>
    /\ UNCHANGED nonEnumVars

\* The list has been handed to the first pool (lines 98-101).
EnumDone ==
    /\ enPc = "listed"
    /\ enPc' = "idle"
    /\ cidr' = [address |-> 0, prefix |-> 0]
    /\ network_obj' = [address |-> 0, prefix |-> 0]
    /\ ip_list' = <<>>
    /\ UNCHANGED nonEnumVars

NextHosts == ParseNetwork \/ ListHosts \/ EnumDone

-----------------------------------------------------------------------------
(* The telemetry parsers: parse_summary_data and parse_stats_data *)

\* The numbers a device reports; a negative one is among them.
Nums == (-1)..MaxNum

\* JSON values of a field. "absent" is a key the object does not have, "text"
\* a string that is not a number ("N/A"), "numstr" a string holding one number
\* ("1"), "tokens" a string of two numbers separated by a space ("1 0").
Absent == [kind |-> "absent", n |-> 0, items |-> <<>>]

Null == [kind |-> "null", n |-> 0, items |-> <<>>]

Text == [kind |-> "text", n |-> 0, items |-> <<>>]

Num(k) == [kind |-> "num", n |-> k, items |-> <<>>]

NumStr(k) == [kind |-> "numstr", n |-> k, items |-> <<>>]

List(s) == [kind |-> "list", n |-> 0, items |-> s]

Tokens(s) == [kind |-> "tokens", n |-> 0, items |-> s]

ScalarValues ==
    {Absent, Null, Text} \cup {Num(k) : k \in Nums} \cup {NumStr(k) : k \in Nums}

Pairs == {<<a, b>> : a \in Nums, b \in Nums}

SensorValues ==
    ScalarValues
        \cup {List(<<>>)} \cup {List(<<a>>) : a \in Nums} \cup {List(s) : s \in Pairs}
        \cup {Tokens(s) : s \in Pairs}

SummaryKeys == {"GHS 5s", "GHS av", "Accepted", "Rejected", "Pool Switches"}

StatsKeys == {"temperature", "fan", "power"}

EmptyObject(keys) == [k \in keys |-> Absent]

SummaryObjects == [SummaryKeys -> ScalarValues]

StatsObjects ==
    {o \in [StatsKeys -> SensorValues] : o["power"] \in ScalarValues}

\* The responses a parser is given, by shape: None or {} ("none"), an object
\* without the category key, the category key holding [], holding [object],
\* holding the object itself ("bare").
Responses(keys, objects) ==
    {[shape |-> sh, object |-> EmptyObject(keys)] : sh \in {"none", "nokey", "emptylist"}}
        \cup {[shape |-> sh, object |-> o] : sh \in {"list", "bare"}, o \in objects}

\* `key in d` and d.get(key, default).
Has(d, key) == d[key].kind # "absent"

Get(d, key, default) == IF Has(d, key) THEN d[key] ELSE default

\* The outcome of a conversion: a value or an exception.
Ok(v) == [ok |-> TRUE, value |-> v, error |-> "None"]

Err(e) == [ok |-> FALSE, value |-> Null, error |-> e]

\* float(v): numbers and numeric strings convert; other strings raise
\* ValueError; None and lists raise TypeError.
FloatOf(v) ==
    CASE v.kind \in {"num", "numstr"} -> Ok(Num(v.n))
      [] v.kind \in {"text", "tokens"} -> Err("ValueError")
      [] OTHER -> Err("TypeError")

\* int(v), for the whole numbers of Nums.
IntOf(v) ==
    CASE v.kind \in {"num", "numstr"} -> Ok(Num(v.n))
      [] v.kind \in {"text", "tokens"} -> Err("ValueError")
      [] OTHER -> Err("TypeError")

\* Truth value of v in `if v`.
Truthy(v) ==
    CASE v.kind = "null" -> FALSE
      [] v.kind = "num" -> v.n # 0
      [] v.kind = "list" -> v.items # <<>>
      [] OTHER -> TRUE

\* max(items) of a non-empty list of numbers.
Max(items) ==
    CHOOSE x \in {items[i] : i \in 1..Len(items)} :
        \A i \in 1..Len(items) : x >= items[i]

\* What a parser returns: {} , an exception, or the dictionary of fields.
Empty == [kind |-> "empty"]

Raises(e) == [kind |-> "raises", error |-> e]

\* (mutant) the long-window average is looked at first
HashRateKeyLongFirst(summary_data) ==
    IF Has(summary_data, "GHS av") THEN "GHS av"
    ELSE IF Has(summary_data, "GHS 5s") THEN "GHS 5s"
    ELSE "none"

\* Lines 138-141: the key the hash rate is read from.
HashRateKey(summary_data) ==
    IF Has(summary_data, "GHS 5s") THEN "GHS 5s"
    ELSE IF Has(summary_data, "GHS av") THEN "GHS av"
    ELSE "none"

\* parse_summary_data (lines 129-149). The category key holding a list gives
\* its first element (IndexError for []), holding anything else gives {}.
ParseSummaryData(summary) ==
    IF summary.shape \in {"none", "nokey"} THEN Empty
    ELSE IF summary.shape = "emptylist" THEN Raises("IndexError")
    ELSE
        LET summary_data ==
                IF summary.shape = "list" THEN summary.object
                ELSE EmptyObject(SummaryKeys)
            hash_rate ==
                IF HashRateKey(summary_data) = "none" THEN Ok(Num(0))
                ELSE FloatOf(summary_data[HashRateKey(summary_data)])
            accepted == IntOf(Get(summary_data, "Accepted", Num(0)))
            rejected == IntOf(Get(summary_data, "Rejected", Num(0)))
            switches == IntOf(Get(summary_data, "Pool Switches", Num(0)))
        IN  IF ~hash_rate.ok THEN Raises(hash_rate.error)
            ELSE IF ~accepted.ok THEN Raises(accepted.error)
            ELSE IF ~rejected.ok THEN Raises(rejected.error)
            ELSE IF ~switches.ok THEN Raises(switches.error)
            ELSE [kind |-> "fields",
                  hash_rate |-> hash_rate.value,
                  accepted_shares |-> accepted.value,
                  rejected_shares |-> rejected.value,
                  pool_switches |-> switches.value,
                  raw_data |-> summary_data]

\* Lines 166-169 and 173-176, up to the conversion: a missing or falsy
\* reading gives None, len() of a number raises TypeError, a list gives its
\* maximum, anything else is handed to the conversion as it is.
Reading(latest_stats, key) ==
    IF ~Has(latest_stats, key) THEN Ok(Null)
    ELSE
        LET temps == latest_stats[key]
        IN  IF ~Truthy(temps) THEN Ok(Null)
            ELSE IF temps.kind = "num" THEN Err("TypeError")
            ELSE IF temps.kind = "list" THEN Ok(Num(Max(temps.items)))
            ELSE Ok(temps)

\* parse_stats_data (lines 152-188). stats_list[-1] of a list is its last
\* element; of a non-empty object it raises KeyError.
ParseStatsData(stats) ==
    IF stats.shape \in {"none", "nokey", "emptylist"} THEN Empty
    ELSE IF stats.shape = "bare"
    THEN IF stats.object = EmptyObject(StatsKeys) THEN Empty ELSE Raises("KeyError")
    ELSE
        LET latest_stats == stats.object
            temps == Reading(latest_stats, "temperature")
            temperature ==
                IF temps.ok /\ temps.value # Null THEN FloatOf(temps.value) ELSE temps
            fans == Reading(latest_stats, "fan")
            fan_speed ==
                IF fans.ok /\ fans.value # Null THEN IntOf(fans.value) ELSE fans
            power_consumption ==
                IF Has(latest_stats, "power") THEN FloatOf(latest_stats["power"])
                ELSE Ok(Null)
        IN  IF ~temperature.ok THEN Raises(temperature.error)
            ELSE IF ~fan_speed.ok THEN Raises(fan_speed.error)
            ELSE IF ~power_consumption.ok THEN Raises(power_consumption.error)
            ELSE [kind |-> "fields",
                  temperature |-> temperature.value,
                  fan_speed |-> fan_speed.value,
                  power_consumption |-> power_consumption.value,
                  raw_data |-> latest_stats]

Parse(func, raw) ==
    IF func = "summary" THEN ParseSummaryData(raw) ELSE ParseStatsData(raw)

\* (mutant) the parser takes the hash-rate key out of the object it reads
AfterParsePops(func, raw) ==
    IF func = "summary"
    THEN [raw EXCEPT !.object["GHS 5s"] = Absent]
    ELSE [raw EXCEPT !.object["temperature"] = Absent]

\* The raw object after a call: the parsers only read it (`in`, get,
\* indexing, max, float, int) and return a reference to it as raw_data.
AfterParse(func, raw) == raw

\* poll_miner around the parsers (monitoring.py lines 53-54, 97-99): an
\* exception of a parser makes the poll return False.
PollAfterParse(out) == IF out.kind = "raises" THEN "False" ELSE "sample"

\* A column of the sample: summary_parsed.get(...) / stats_parsed.get(...)
\* (monitoring.py lines 70-76), None for a parser that returned {}.
SampleField(out, field) == IF out.kind = "fields" THEN out[field] ELSE Null

NoResponse == [shape |-> "none", object |-> <<>>]

\* agent.py lines 106-116: the object the agent reads its fields from.  The
\* category key holding a non-empty list gives its first element, holding a
\* non-empty object gives that object; otherwise the response itself is read,
\* which has none of the fields.
AgentData(raw, keys) ==
    IF raw.shape \in {"list", "bare"} THEN raw.object ELSE EmptyObject(keys)

\* d.get(key) of the agent: None for a key the object does not have.  The
\* objects of the model carry the keys the central parsers read.
AgentGet(d, key) == IF key \in DOMAIN d /\ Has(d, key) THEN d[key] ELSE Null

\* x / 1000.0 (agent.py line 122).
Thousandth(v) ==
    IF v.n % 1000 = 0 THEN Num(v.n \div 1000)
    ELSE [kind |-> "thousandths", n |-> v.n, items |-> <<>>]

\* [int(t) for t in str(v).split() if t.isdigit()] (agent.py lines 136-137,
\* 145-146): the pieces of the printed value made of digits only; a minus
\* sign or the brackets and commas of a printed list are not digits.
Digits(v) ==
    CASE v.kind \in {"num", "numstr"} -> IF v.n >= 0 THEN <<v.n>> ELSE <<>>
      [] v.kind = "tokens" -> SelectSeq(v.items, LAMBDA t : t >= 0)
      [] OTHER -> <<>>

\* agent.py lines 134-150: the largest of the digit pieces, None without one.
AgentReading(d, key) ==
    IF key \in DOMAIN d /\ Has(d, key) /\ Digits(d[key]) # <<>>
    THEN Num(Max(Digits(d[key])))
    ELSE Null

\* The extraction of the agent's poll_miner (agent.py lines 102-165) from a
\* summary response: None for a falsy response (lines 96-97).
AgentSummary(summary) ==
    IF summary.shape = "none" THEN Empty
    ELSE
        LET summary_data == AgentData(summary, SummaryKeys)
            hash_rate ==
                IF Has(summary_data, "GHS 5s") /\ FloatOf(summary_data["GHS 5s"]).ok
                THEN Thousandth(FloatOf(summary_data["GHS 5s"]).value)
                ELSE Null
        IN  [kind |-> "fields",
             hash_rate |-> hash_rate,
             accepted_shares |-> AgentGet(summary_data, "Accepted"),
             rejected_shares |-> AgentGet(summary_data, "Rejected"),
             pool_switches |-> AgentGet(summary_data, "Pool Rejected%"),
             raw_data |-> summary_data]

\* The same from a stats response.
AgentStats(stats) ==
    LET stats_data == AgentData(stats, StatsKeys)
    IN  [kind |-> "fields",
         temperature |-> AgentReading(stats_data, "temp"),
         fan_speed |-> AgentReading(stats_data, "fan"),
         power_consumption |-> Null,
         raw_data |-> stats_data]

AgentExtract(func, raw) ==
    IF func = "summary" THEN AgentSummary(raw) ELSE AgentStats(raw)

ParseIdle ==
    /\ pPc = "idle"
    /\ pFunc = "none"
    /\ pInput = NoResponse
    /\ pOut = Empty
    /\ pAfter = NoResponse
    /\ pOut2 = Empty
    /\ agOut = Empty

ParseCall(func, raw) ==
    /\ pPc' = "parsed"
    /\ pFunc' = func
    /\ pInput' = raw
    /\ pOut' = Parse(func, raw)
    /\ pAfter' = AfterParse(func, raw)
    /\ pOut2' = Empty
    /\ agOut' = AgentExtract(func, raw)
    /\ UNCHANGED nonParseVars

ParseSummaryCall ==
    /\ pPc = "idle"
    /\ \E raw \in Responses(SummaryKeys, SummaryObjects) :
        ParseCall("summary", raw)

ParseStatsCall ==
    /\ pPc = "idle"
    /\ \E raw \in Responses(StatsKeys, StatsObjects) :
        ParseCall("stats", raw)

\* The parser is called again with the same object.
ParseAgain ==
    /\ pPc = "parsed"
    /\ pPc' = "reparsed"
    /\ pOut2' = Parse(pFunc, pAfter)
    /\ UNCHANGED <<pFunc, pInput, pOut, pAfter, agOut>>
    /\ UNCHANGED nonParseVars

ParseDone ==
    /\ pPc = "reparsed"
    /\ pPc' = "idle"
    /\ pFunc' = "none"
    /\ pInput' = NoResponse
    /\ pOut' = Empty
    /\ pAfter' = NoResponse
    /\ pOut2' = Empty
    /\ agOut' = Empty
    /\ UNCHANGED nonParseVars

NextParse == ParseSummaryCall \/ ParseStatsCall \/ ParseAgain \/ ParseDone

-----------------------------------------------------------------------------
(* MonitoringService.start and stop, called any number of times *)

LifeIdle ==
    /\ stale = FALSE
    /\ lastCall = "none"
    /\ starts = 0

\* The loop task has been created and has neither returned nor been cancelled.
LoopAlive == loop \in {"created", "gather", "sleep", "recover"}

\* (mutant) stop() clears the flag and leaves the task alone
TaskLeftRunning(l) == l

\* self._task.cancel() (lines 153-154): CancelledError is thrown into the loop
\* task at the await it is suspended at (gather or sleep); `except Exception`
\* does not catch it, so the task ends without running the loop again.
TaskCancel(l) == IF l = "none" THEN l ELSE "cancelled"

\* start() (lines 136-145), whatever the state of the service.
ServiceStart ==
    /\ impl = "service"
    /\ is_running \/ starts < MaxStarts
    /\ IF is_running
       THEN /\ lastCall' = "start ignored"
            /\ UNCHANGED <<is_running, loop, stale, starts>>
       ELSE /\ lastCall' = "start"
            /\ starts' = starts + 1
            /\ is_running' = TRUE
            /\ loop' = "created"
            /\ stale' = (stale \/ LoopAlive)
    /\ UNCHANGED <<impl, slept, registry, unreachable, task, orphans, manual,
                   successful, failed, cycleParity, stopSignalled, delta, samples>>
    /\ UNCHANGED nonPollLifeVars

\* stop() (lines 147-155), whatever the state of the service.
ServiceStop ==
    /\ impl = "service"
    /\ IF ~is_running
       THEN /\ lastCall' = "stop ignored"
            /\ UNCHANGED <<is_running, loop, task, orphans, stopSignalled>>
       ELSE /\ lastCall' = "stop"
            /\ is_running' = FALSE
            /\ stopSignalled' = TRUE
            /\ loop' = TaskCancel(loop)
            /\ task' = CancelledTasks
            /\ orphans' = OrphansAfterCancel
    /\ UNCHANGED <<impl, slept, registry, unreachable, manual, successful, failed,
                   cycleParity, delta, samples, stale, starts>>
    /\ UNCHANGED nonPollLifeVars

\* The service's loop between the calls.  The loop never leaves through its
\* while test: the flag is cleared by stop() alone, which cancels the task.
NextLifecycle ==
    \/ ServiceStart
    \/ ServiceStop
    \/ CycleStart
    \/ CycleRaises
    \/ \E m \in Miners : TaskStep(m)
    \/ CycleEnd
    \/ SleepTick
    \/ \E m \in Miners : OrphanFinish(m)

-----------------------------------------------------------------------------
(* The connections of one poll task: get_all_data over _send_command *)

ConnIdle ==
    /\ gaPc = "idle"
    /\ gaCmd = 0
    /\ worker = "none"
    /\ gaOut = "none"
    /\ gaOpen = {}
    /\ gaTrace = <<>>
    /\ gaRes = <<>>

\* (mutant) the socket is closed only when the exchange gave a document
ClosedOnSuccess(open, k, out) == IF out = "data" THEN open \ {k} ELSE open

\* The `finally: sock.close()` of _send_command (lines 67-68): the socket of
\* the command is closed whatever the exchange gave.
ClosedAfter(open, k, out) == open \ {k}

\* get_all_data is called: get_summary hands _send_command to the executor
\* and awaits it (lines 85-89, 112).
GetAllDataCall ==
    /\ gaPc = "idle"
    /\ gaPc' = "await"
    /\ gaCmd' = 1
    /\ worker' = "queued"
    /\ gaOut' = "none"
    /\ gaOpen' = {}
    /\ gaTrace' = <<>>
    /\ gaRes' = <<>>
    /\ UNCHANGED nonConnVars

\* The executor thread creates the socket of the command and connects (lines
\* 22-26).
WorkerOpen ==
    /\ worker = "queued"
    /\ worker' = "open"
    /\ gaOpen' = gaOpen \cup {gaCmd}
    /\ gaTrace' = Append(gaTrace, <<"open", Commands[gaCmd]>>)
    /\ UNCHANGED <<gaPc, gaCmd, gaOut, gaRes>>
    /\ UNCHANGED nonConnVars

\* The exchange on the socket gives a document or fails (lines 26-65).
WorkerExchange ==
    /\ worker = "open"
    /\ worker' = "exchanged"
    /\ gaOut' \in Outcomes
    /\ UNCHANGED <<gaPc, gaCmd, gaOpen, gaTrace, gaRes>>
    /\ UNCHANGED nonConnVars

\* The finally clause, then the return or the except branch (lines 67-83).
WorkerClose ==
    /\ worker = "exchanged"
    /\ worker' = "closed"
    /\ gaOpen' = ClosedAfter(gaOpen, gaCmd, gaOut)
    /\ gaTrace' = IF gaCmd \in ClosedAfter(gaOpen, gaCmd, gaOut) THEN gaTrace
                  ELSE Append(gaTrace, <<"close", Commands[gaCmd]>>)
    /\ UNCHANGED <<gaPc, gaCmd, gaOut, gaRes>>
    /\ UNCHANGED nonConnVars

\* The await returns the thread's value; get_all_data goes on to its next
\* command (lines 112-115) or returns its dict (lines 117-123).
AwaitReturns ==
    /\ worker = "closed"
    /\ gaRes' = Append(gaRes, gaOut)
    /\ gaOut' = "none"
    /\ IF gaCmd < Len(Commands)
       THEN /\ gaCmd' = gaCmd + 1
            /\ worker' = "queued"
            /\ UNCHANGED gaPc
       ELSE /\ gaPc' = "done"
            /\ worker' = "none"
            /\ UNCHANGED gaCmd
    /\ UNCHANGED <<gaOpen, gaTrace>>
    /\ UNCHANGED nonConnVars

\* The caller has the dict.
GetAllDataDone ==
    /\ gaPc = "done"
    /\ gaPc' = "idle"
    /\ gaCmd' = 0
    /\ gaOpen' = {}
    /\ gaTrace' = <<>>
    /\ gaRes' = <<>>
    /\ UNCHANGED <<worker, gaOut>>
    /\ UNCHANGED nonConnVars

NextConnections ==
    \/ GetAllDataCall
    \/ WorkerOpen
    \/ WorkerExchange
    \/ WorkerClose
    \/ AwaitReturns
    \/ GetAllDataDone

-----------------------------------------------------------------------------
(* The stored effects of MonitoringService.poll_miner *)

StoreIdle ==
    /\ pmPc = "idle"
    /\ allData = "none"
    /\ session = "none"
    /\ pending = FALSE
    /\ rows = 0
    /\ lastSeen = 0
    /\ rowsBefore = 0
    /\ seenBefore = 0
    /\ pmRet = "none"

\* What get_all_data hands to poll_miner: None when an await raised (lines
\* 124-126), else the dict, in which each command's value is the answer or
\* None.
AllDataValues == {"None", "no answers", "summary only", "stats only", "answers"}

\* (mutant) the session is not closed when poll_miner leaves early
SessionLeftOpen(s) == s

\* finally: if db: db.close() (lines 93-95).
SessionClosed(s) == IF s = "open" THEN "closed" ELSE s

\* poll_miner is called for a device of the registry; it awaits get_all_data
\* (lines 34-43).
PollMinerCall ==
    /\ pmPc = "idle"
    /\ rows < MaxRows
    /\ pmPc' = "fetch"
    /\ allData' = "none"
    /\ session' = "none"
    /\ pending' = FALSE
    /\ rowsBefore' = rows
    /\ seenBefore' = lastSeen
    /\ pmRet' = "none"
    /\ UNCHANGED <<rows, lastSeen>>
    /\ UNCHANGED nonStoreVars

\* get_all_data returns; `if not all_data: return False` (lines 43-47).
PollMinerFetch ==
    /\ pmPc = "fetch"
    /\ \E d \in AllDataValues :
        /\ allData' = d
        /\ IF d = "None"
           THEN /\ pmPc' = "returned"
                /\ pmRet' = "False"
           ELSE /\ pmPc' = "parse"
                /\ UNCHANGED pmRet
    /\ UNCHANGED <<session, pending, rows, lastSeen, rowsBefore, seenBefore>>
    /\ UNCHANGED nonStoreVars

\* The two parsers (lines 50-54): they return, or one raises and the outer
\* except returns False (lines 97-99) with no session opened.  A None answer
\* parses to {} and never raises.
PollMinerParse ==
    /\ pmPc = "parse"
    /\ \E raised \in BOOLEAN :
        /\ raised => allData # "no answers"
        /\ IF raised
           THEN /\ pmPc' = "returned"
                /\ pmRet' = "False"
           ELSE /\ pmPc' = "session"
                /\ UNCHANGED pmRet
    /\ UNCHANGED <<allData, session, pending, rows, lastSeen, rowsBefore, seenBefore>>
    /\ UNCHANGED nonStoreVars

\* db = self._get_db_session() (line 57): a session, or an exception caught at
\* lines 97-99.
PollMinerSession ==
    /\ pmPc = "session"
    /\ \E raised \in BOOLEAN :
        IF raised
        THEN /\ pmPc' = "returned"
             /\ pmRet' = "False"
             /\ UNCHANGED session
        ELSE /\ pmPc' = "query"
             /\ session' = "open"
             /\ UNCHANGED pmRet
    /\ UNCHANGED <<allData, pending, rows, lastSeen, rowsBefore, seenBefore>>
    /\ UNCHANGED nonStoreVars

\* An exception inside the inner try (lines 89-95, 97-99): rollback, close,
\* return False.
PollMinerUnwind ==
    /\ pmPc' = "returned"
    /\ pmRet' = "False"
    /\ pending' = FALSE
    /\ session' = SessionClosed(session)
    /\ UNCHANGED <<allData, rows, lastSeen, rowsBefore, seenBefore>>
    /\ UNCHANGED nonStoreVars

\* The miner is read again (lines 61-64): found, gone (return False through
\* the finally clause), or the query raises.
PollMinerQuery ==
    /\ pmPc = "query"
    /\ \E found \in {"found", "gone", "raises"} :
        IF found = "found"
        THEN /\ pmPc' = "build"
             /\ UNCHANGED <<allData, session, pending, rows, lastSeen, rowsBefore,
                            seenBefore, pmRet>>
             /\ UNCHANGED nonStoreVars
        ELSE PollMinerUnwind

\* MinerStats(...), set_summary_data, set_stats_data, last_seen, db.add (lines
\* 67-85): the row and last_seen are pending in the session, or a step raises.
PollMinerBuild ==
    /\ pmPc = "build"
    /\ \E raised \in BOOLEAN :
        IF raised THEN PollMinerUnwind
        ELSE /\ pmPc' = "commit"
             /\ pending' = TRUE
             /\ UNCHANGED <<allData, session, rows, lastSeen, rowsBefore, seenBefore,
                            pmRet>>
             /\ UNCHANGED nonStoreVars

\* db.commit() (line 86): what is pending is stored in one transaction, or the
\* commit raises and is rolled back.
PollMinerCommit ==
    /\ pmPc = "commit"
    /\ \E raised \in BOOLEAN :
        IF raised THEN PollMinerUnwind
        ELSE /\ pmPc' = "committed"
             /\ pending' = FALSE
             /\ rows' = rows + 1
             /\ lastSeen' = lastSeen + 1
             /\ UNCHANGED <<allData, session, rowsBefore, seenBefore, pmRet>>
             /\ UNCHANGED nonStoreVars

\* return True through the finally clause (lines 88-89, 93-95).
PollMinerReturnTrue ==
    /\ pmPc = "committed"
    /\ pmPc' = "returned"
    /\ pmRet' = "True"
    /\ session' = SessionClosed(session)
    /\ UNCHANGED <<allData, pending, rows, lastSeen, rowsBefore, seenBefore>>
    /\ UNCHANGED nonStoreVars

\* The caller has the value.
PollMinerDone ==
    /\ pmPc = "returned"
    /\ pmPc' = "idle"
    /\ allData' = "none"
    /\ session' = "none"
    /\ pmRet' = "none"
    /\ UNCHANGED <<pending, rows, lastSeen, rowsBefore, seenBefore>>
    /\ UNCHANGED nonStoreVars

NextStore ==
    \/ PollMinerCall
    \/ PollMinerFetch
    \/ PollMinerParse
    \/ PollMinerSession
    \/ PollMinerQuery
    \/ PollMinerBuild
    \/ PollMinerCommit
    \/ PollMinerReturnTrue
    \/ PollMinerDone

-----------------------------------------------------------------------------
(* The agent's registry under run_scan_loop and run_poll_loop *)

\* MonitoringAgent.__init__ (line 50), then start() (lines 263-272): both
\* loops are about to run their first pass.
AgentIdle ==
    /\ discovered_miners = {}
    /\ agScan = "ready"
    /\ scanNo = 0
    /\ agPoll = "ready"
    /\ todo = {}
    /\ pollTasks = {}
    /\ regAtStart = {}
    /\ everAdded = {}
    /\ dueAtStart = {}

\* The keys of the registry.
Keys(d) == {e[1] : e \in d}

\* (mutant) the registry is rebuilt from the scan's result
UpdatedFromScratch(d, found, stamp) == {<<ip, stamp>> : ip \in found}

\* The for loop of lines 72-83 over the accessible records of one scan:
\* self.discovered_miners[ip] = {...} replaces the entry of a key already
\* there and adds the entry of a new key; nothing is removed.
Updated(d, found, stamp) ==
    {e \in d : e[1] \notin found} \cup {<<ip, stamp>> : ip \in found}

\* (mutant) the for loop awaits each poll as it goes
YieldsWhileIterating == agPoll = "iterating"

\* The for loop of poll_all_miners (lines 176-178) creates coroutine objects
\* and awaits nothing, and both loops run on the one event loop thread: no
\* other coroutine runs until the loop is over.
PollLoopYields == FALSE

\* The poll loop is suspended at an await, so the scan loop can run.
PollAtAwait == agPoll \in {"ready", "gather", "sleep"} \/ PollLoopYields

\* run_scan_loop calls scan_network, which awaits the executor (lines 58-65).
AgentScanBegin ==
    /\ agScan = "ready"
    /\ scanNo < MaxScans
    /\ PollAtAwait
    /\ agScan' = "scanning"
    /\ scanNo' = scanNo + 1
    /\ UNCHANGED <<discovered_miners, agPoll, todo, pollTasks, regAtStart,
                   everAdded, dueAtStart>>
    /\ UNCHANGED nonAgentVars

\* The executor call returns a list of records, of which those of the
\* addresses `found` are accessible (or it raised and the list is []); the
\* registry is updated in one go (lines 70-85) and the loop awaits its upload
\* and its sleep.  The records are any list scan_network's two record forms
\* allow.
AgentScanUpdate ==
    /\ agScan = "scanning"
    /\ PollAtAwait
    /\ \E found \in SUBSET Miners :
        /\ discovered_miners' = Updated(discovered_miners, found, scanNo)
        /\ everAdded' = everAdded \cup found
    /\ agScan' = "sleep"
    /\ UNCHANGED <<scanNo, agPoll, todo, pollTasks, regAtStart, dueAtStart>>
    /\ UNCHANGED nonAgentVars

\* asyncio.sleep(self.scan_interval) is over (line 245).
AgentScanWake ==
    /\ agScan = "sleep"
    /\ PollAtAwait
    /\ agScan' = "ready"
    /\ UNCHANGED <<discovered_miners, scanNo, agPoll, todo, pollTasks, regAtStart,
                   everAdded, dueAtStart>>
    /\ UNCHANGED nonAgentVars

\* poll_all_miners begins (lines 172-176): with an empty registry it returns
\* [] and the loop sleeps; otherwise the for loop starts.
AgentPollBegin ==
    /\ agPoll = "ready"
    /\ IF discovered_miners = {}
       THEN /\ agPoll' = "sleep"
            /\ todo' = {}
       ELSE /\ agPoll' = "iterating"
            /\ todo' = Keys(discovered_miners)
    /\ pollTasks' = {}
    /\ regAtStart' = discovered_miners
    /\ dueAtStart' = everAdded
    /\ UNCHANGED <<discovered_miners, agScan, scanNo, everAdded>>
    /\ UNCHANGED nonAgentVars

\* One pass of the for loop: tasks.append(self.poll_miner(ip, port)).
AgentPollItem ==
    /\ agPoll = "iterating"
    /\ \E ip \in todo :
        /\ todo' = todo \ {ip}
        /\ pollTasks' = pollTasks \cup {ip}
    /\ UNCHANGED <<discovered_miners, agScan, scanNo, agPoll, regAtStart,
                   everAdded, dueAtStart>>
    /\ UNCHANGED nonAgentVars

\* The for loop is over: await asyncio.gather(*tasks) (line 180).
AgentPollGather ==
    /\ agPoll = "iterating"
    /\ todo = {}
    /\ agPoll' = "gather"
    /\ UNCHANGED <<discovered_miners, agScan, scanNo, todo, pollTasks, regAtStart,
                   everAdded, dueAtStart>>
    /\ UNCHANGED nonAgentVars

\* gather returns; the loop uploads and sleeps (lines 181-184, 255-258).
AgentPollGathered ==
    /\ agPoll = "gather"
    /\ agPoll' = "sleep"
    /\ UNCHANGED <<discovered_miners, agScan, scanNo, todo, pollTasks, regAtStart,
                   everAdded, dueAtStart>>
    /\ UNCHANGED nonAgentVars

\* asyncio.sleep(self.poll_interval) is over (line 258).
AgentPollWake ==
    /\ agPoll = "sleep"
    /\ agPoll' = "ready"
    /\ UNCHANGED <<discovered_miners, agScan, scanNo, todo, pollTasks, regAtStart,
                   everAdded, dueAtStart>>
    /\ UNCHANGED nonAgentVars

NextAgent ==
    \/ AgentScanBegin
    \/ AgentScanUpdate
    \/ AgentScanWake
    \/ AgentPollBegin
    \/ AgentPollItem
    \/ AgentPollGather
    \/ AgentPollGathered
    \/ AgentPollWake

-----------------------------------------------------------------------------
(* The executors of the service: one polling cycle, thread by thread *)

NoCall == [st |-> "none", cmd |-> 0]

\* MonitoringService.__init__ with the settings of the environment; no cycle
\* has begun.
ExecIdle ==
    /\ max_workers = DefaultMaxWorkers
    /\ exPc = "idle"
    /\ exTask = [m \in Miners |-> NoCall]

\* The values the environment gives settings.max_workers.
SettingValues == 1..MaxSetting

\* The pool a command is handed to: loop.run_in_executor(None, ...) names the
\* event loop's default executor.  self.executor, the pool built with
\* settings.max_workers threads (monitoring.py line 19), is handed nothing.
ExecutorOf(command) == "default"

\* The number of threads of a pool.
PoolThreads(pool) == IF pool = "default" THEN DefaultPoolThreads ELSE max_workers

\* Worker threads inside _send_command: each holds one connection from
\* socket.socket() to sock.close().
OpenConnections == {m \in Miners : exTask[m].st = "open"}

\* poll_all_miners up to its await: one task per active miner; each task runs
\* to its first await, where "summary" is handed to the executor.
ExecCycleStart ==
    /\ exPc = "idle"
    /\ \E active \in SUBSET Miners :
        exTask' = [m \in Miners |->
                    IF m \in active THEN [st |-> "queued", cmd |-> 1] ELSE NoCall]
    /\ exPc' = "gather"
    /\ UNCHANGED max_workers
    /\ UNCHANGED nonExecVars

\* A free thread of the pool takes the call from the pool's queue and enters
\* _send_command: the socket is created.
ExecWorkerTake(m) ==
    /\ exPc = "gather"
    /\ exTask[m].st = "queued"
    /\ Cardinality(OpenConnections) < PoolThreads(ExecutorOf(exTask[m].cmd))
    /\ exTask' = [exTask EXCEPT ![m].st = "open"]
    /\ UNCHANGED <<max_workers, exPc>>
    /\ UNCHANGED nonExecVars

\* _send_command ends: the finally clause closes the socket and the thread is
\* free again.
ExecWorkerReturn(m) ==
    /\ exPc = "gather"
    /\ exTask[m].st = "open"
    /\ exTask' = [exTask EXCEPT ![m].st = "returned"]
    /\ UNCHANGED <<max_workers, exPc>>
    /\ UNCHANGED nonExecVars

\* The task is resumed with the result: get_all_data hands the next command
\* to the executor, or ends after "devs".
ExecTaskResume(m) ==
    /\ exPc = "gather"
    /\ exTask[m].st = "returned"
    /\ exTask' = [exTask EXCEPT ![m] =
                    IF exTask[m].cmd < NumCalls("service")
                    THEN [st |-> "queued", cmd |-> exTask[m].cmd + 1]
                    ELSE [st |-> "done", cmd |-> exTask[m].cmd]]
    /\ UNCHANGED <<max_workers, exPc>>
    /\ UNCHANGED nonExecVars

\* gather returns; the loop sleeps and the next cycle may begin.
ExecCycleEnd ==
    /\ exPc = "gather"
    /\ \A m \in Miners : exTask[m].st \in {"none", "done"}
    /\ exPc' = "idle"
    /\ exTask' = [m \in Miners |-> NoCall]
    /\ UNCHANGED max_workers
    /\ UNCHANGED nonExecVars

NextExec ==
    \/ ExecCycleStart
    \/ \E m \in Miners : ExecWorkerTake(m)
    \/ \E m \in Miners : ExecWorkerReturn(m)
    \/ \E m \in Miners : ExecTaskResume(m)
    \/ ExecCycleEnd

-----------------------------------------------------------------------------
(* Ingestion of discovered miners into the miners table *)

\* No row for any address.
NoRows == [m \in Miners |-> 0]

\* The application has started; no ingestion request is being served.
IngestIdle ==
    /\ inPc = "idle"
    /\ handler = "none"
    /\ request = <<>>
    /\ item = 0
    /\ minerRows = NoRows
    /\ newRows = NoRows

\* A DiscoveredMiner of a request body: the address and, for
\* add_discovered_miners, the is_accessible flag.
DiscoveredItems == [addr : Miners, is_accessible : BOOLEAN]

\* The request bodies: any list, lists that repeat an address included.
RequestLists ==
    UNION {[1..n -> DiscoveredItems] : n \in 0..MaxList}

\* sessionmaker(autocommit=False, autoflush=False, bind=engine)
Autoflush == FALSE

\* db.query(Miner).filter(ip_address == ..., port == ...).first(): the rows the
\* SELECT finds.  Objects added to the session are written before the query
\* only by a session that flushes automatically.
Existing(a) == minerRows[a] + (IF Autoflush THEN newRows[a] ELSE 0)

\* db.commit(): the pending objects are inserted.
CommitRows == [m \in Miners |-> minerRows[m] + newRows[m]]

\* A request reaches one of the two endpoints (authorisation has passed).
IngestCall ==
    /\ inPc = "idle"
    /\ \E h \in {"add", "sync"} :
        /\ handler' = h
        /\ \E body \in RequestLists :
            /\ h = "sync" => \A i \in DOMAIN body : body[i].is_accessible
            /\ request' = body
    /\ inPc' = "loop"
    /\ item' = 1
    /\ newRows' = NoRows
    /\ UNCHANGED minerRows
    /\ UNCHANGED nonIngestVars

\* One pass of add_discovered_miners' for loop (lines 998-1026).
AddItem ==
    /\ inPc = "loop"
    /\ handler = "add"
    /\ item <= Len(request)
    /\ LET d == request[item] IN
        IF ~d.is_accessible \/ Existing(d.addr) > 0
        THEN UNCHANGED newRows
        ELSE newRows' = [newRows EXCEPT ![d.addr] = @ + 1]
    /\ item' = item + 1
    /\ UNCHANGED <<inPc, handler, request, minerRows>>
    /\ UNCHANGED nonIngestVars

\* The loop of add_discovered_miners is over: db.commit() (line 1028).
AddCommit ==
    /\ inPc = "loop"
    /\ handler = "add"
    /\ item > Len(request)
    /\ minerRows' = CommitRows
    /\ newRows' = NoRows
    /\ inPc' = "responded"
    /\ UNCHANGED <<handler, request, item>>
    /\ UNCHANGED nonIngestVars

\* A query or the commit of add_discovered_miners raises: the request fails
\* and get_db closes the session, whose pending objects are dropped.
AddRaises ==
    /\ inPc = "loop"
    /\ handler = "add"
    /\ newRows' = NoRows
    /\ inPc' = "responded"
    /\ UNCHANGED <<handler, request, item, minerRows>>
    /\ UNCHANGED nonIngestVars

\* One pass of sync_agent_data's first for loop (lines 1382-1427): the miner
\* found is updated, a missing one is added, and the pass commits.
SyncItem ==
    /\ inPc = "loop"
    /\ handler = "sync"
    /\ item <= Len(request)
    /\ LET a == request[item].addr IN
        minerRows' = IF Existing(a) > 0
                     THEN minerRows
                     ELSE [minerRows EXCEPT ![a] = @ + 1]
    /\ item' = item + 1
    /\ UNCHANGED <<inPc, handler, request, newRows>>
    /\ UNCHANGED nonIngestVars

\* The pass raises: the error is recorded and the session rolled back (lines
\* 1428-1430); the loop goes on with the next element.
SyncItemRaises ==
    /\ inPc = "loop"
    /\ handler = "sync"
    /\ item <= Len(request)
    /\ item' = item + 1
    /\ UNCHANGED <<inPc, handler, request, minerRows, newRows>>
    /\ UNCHANGED nonIngestVars

\* The first loop of sync_agent_data is over.
SyncEnd ==
    /\ inPc = "loop"
    /\ handler = "sync"
    /\ item > Len(request)
    /\ inPc' = "responded"
    /\ UNCHANGED <<handler, request, item, minerRows, newRows>>
    /\ UNCHANGED nonIngestVars

\* The response is sent; the next request may be served.
IngestDone ==
    /\ inPc = "responded"
    /\ inPc' = "idle"
    /\ handler' = "none"
    /\ request' = <<>>
    /\ item' = 0
    /\ UNCHANGED <<minerRows, newRows>>
    /\ UNCHANGED nonIngestVars

NextIngest ==
    \/ IngestCall
    \/ AddItem
    \/ AddCommit
    \/ AddRaises
    \/ SyncItem
    \/ SyncItemRaises
    \/ SyncEnd
    \/ IngestDone

\* Nothing has been constructed.
PollIdle ==
    /\ impl = "service"
    /\ is_running = FALSE
    /\ loop = "none"
    /\ slept = 0
    /\ registry = [m \in Miners |-> "absent"]
    /\ unreachable = {}
    /\ task = [m \in Miners |-> NoTask]
    /\ orphans = [m \in Miners |-> 0]
    /\ manual = NoManual
    /\ successful = 0
    /\ failed = 0
    /\ cycleParity = 0
    /\ stopSignalled = FALSE
    /\ delta = {}
    /\ samples = {}

\* MonitoringService.__init__ over any miners table and any devices;
\* MonitoringAgent.__init__, whose discovered_miners is empty.
InitPoll ==
    /\ ClientIdle
    /\ IngestIdle
    /\ ExecIdle
    /\ AgentIdle
    /\ StoreIdle
    /\ ConnIdle
    /\ LifeIdle
    /\ SeqIdle
    /\ ScanIdle
    /\ EnumIdle
    /\ ParseIdle
    /\ impl \in {"service", "agent"}
    /\ is_running = FALSE
    /\ loop = "none"
    /\ slept = 0
    /\ registry \in [Miners -> {"absent", "active", "inactive"}]
    /\ unreachable \in SUBSET Miners
    /\ impl = "agent" => /\ registry = [m \in Miners |-> "absent"]
                         /\ unreachable = {}
    /\ task = [m \in Miners |-> NoTask]
    /\ orphans = [m \in Miners |-> 0]
    /\ manual = NoManual
    /\ successful = 0
    /\ failed = 0
    /\ cycleParity = 0
    /\ stopSignalled = FALSE
    /\ delta = {}
    /\ samples = {}

NextPoll ==
    \/ Start
    \/ Stop
    \/ LoopExit
    \/ CycleStart
    \/ CycleRaises
    \/ \E m \in Miners : TaskStep(m)
    \/ CycleEnd
    \/ SleepTick
    \/ \E m \in Miners : OrphanFinish(m)
    \/ \E m \in Miners : CreateMiner(m)
    \/ \E m \in Miners : DeleteMiner(m)
    \/ \E m \in Miners : UpdateMiner(m)

NextOps ==
    \/ NextPoll
    \/ \E m \in Miners : ManualPollStart(m)
    \/ ManualStep
-----------------------------------------------------------------------------
(* Specifications *)

InitClient == IngestIdle /\ ExecIdle /\ AgentIdle /\ StoreIdle /\ ConnIdle /\ LifeIdle /\ ClientIdle /\ PollIdle /\ SeqIdle /\ ScanIdle /\ EnumIdle /\ ParseIdle

\* The parsers on any response.
SpecParse == InitClient /\ [][NextParse]_vars

\* The enumeration of any network.
SpecHosts == InitClient /\ [][NextHosts]_vars

\* One scan_network call at a time, any block of devices.
SpecScan == InitClient /\ [][NextScan]_vars

\* The pool threads and the thread that runs scan_network are scheduled.
SpecScanFair == SpecScan /\ WF_vars(ScanStep)

\* One command sequence of either program, no loop running.
InitCommands ==
    /\ InitPoll
    /\ registry = [m \in Miners |-> "absent"]
    /\ unreachable = {}

NextCommands == SeqStart \/ SeqStep \/ SeqEnd \/ SeqDone

SpecCommands == InitCommands /\ [][NextCommands]_vars

NextClient ==
    \/ Call
    \/ Connect
    \/ Send
    \/ RecvChunk
    \/ RecvEof
    \/ RecvTimeout
    \/ RecvError
    \/ CallDone

\* One client, any device.
SpecClient == InitClient /\ [][NextClient]_vars

\* The thread that runs _send_command is scheduled: a step of the call that can
\* be taken is eventually taken.  Nothing is assumed of the device.
SpecClientFair == SpecClient /\ WF_vars(ClientStep)

\* One polling loop (service or agent), the registry changing beside it.
SpecPoll == InitPoll /\ [][NextPoll]_vars

\* The same, with manual polls requested beside the loop.
SpecOps == InitPoll /\ [][NextOps]_vars

InitLifecycle == InitPoll /\ impl = "service"

\* MonitoringService with start() and stop() called in any order.
SpecLifecycle == InitLifecycle /\ [][NextLifecycle]_vars

\* One get_all_data against a device that answers or fails each command.
SpecConnections == InitClient /\ [][NextConnections]_vars

\* poll_miner called again and again for one device, any step of it failing.
SpecStore == InitClient /\ [][NextStore]_vars

\* The agent's two loops on one event loop, the scanner returning any records.
SpecAgent == InitClient /\ [][NextAgent]_vars

\* A service constructed with any configured max_workers, one cycle at a time.
InitExec ==
    /\ AgentIdle /\ StoreIdle /\ ConnIdle /\ LifeIdle /\ ClientIdle /\ PollIdle
    /\ SeqIdle /\ ScanIdle /\ EnumIdle /\ ParseIdle /\ IngestIdle
    /\ max_workers \in SettingValues
    /\ exPc = "idle"
    /\ exTask = [m \in Miners |-> NoCall]

SpecExec == InitExec /\ [][NextExec]_vars

\* Requests to the two ingestion endpoints, one after the other, on a table in
\* which no two miners share an address.
InitIngest ==
    /\ ExecIdle /\ AgentIdle /\ StoreIdle /\ ConnIdle /\ LifeIdle /\ ClientIdle
    /\ PollIdle /\ SeqIdle /\ ScanIdle /\ EnumIdle /\ ParseIdle
    /\ inPc = "idle"
    /\ handler = "none"
    /\ request = <<>>
    /\ item = 0
    /\ minerRows \in [Miners -> 0..1]
    /\ newRows = NoRows

SpecIngest == InitIngest /\ [][NextIngest]_vars

-----------------------------------------------------------------------------
(* Claims about the polling loops *)

\* A cycle starts in this step.
CycleBegins == cycleParity' # cycleParity

\* The loop task has ended.
LoopEnded == loop \in {"exited", "cancelled"}

\* C1: a completed cycle of MonitoringService in which no polled device was
\* missing from the registry counts the unreachable devices it polled as
\* failures and the other devices it polled as successes.
C1_CycleCountsFailures ==
    (/\ impl = "service"
     /\ loop = "sleep"
     /\ Polled # {}
     /\ \A m \in Polled : task[m].result # "not found")
    => /\ successful = Cardinality(Polled \ unreachable)
       /\ failed = Cardinality(Polled \cap unreachable)

\* C2: the loop ends only after stop() was called, never because an exception
\* escaped a cycle: the exception leads to the recovery sleep, and once that
\* sleep has elapsed a running loop can start its next cycle.
C2_LoopSurvivesErrors ==
    /\ LoopEnded => stopSignalled
    /\ (loop = "recover" /\ slept = RecoveryDelay(impl) /\ is_running)
            => ENABLED CycleStart

C2_Witness ==
    /\ loop = "recover"
    /\ slept = RecoveryDelay(impl)
    /\ is_running
    /\ cycleParity = 0

\* C3: a cycle starts only when the loop has just been created or its sleep
\* (the interval after a completed cycle, the recovery delay after a failed
\* one) has elapsed in full, and never while a task of an earlier cycle runs.
C3_FixedDelay ==
    [][CycleBegins =>
        /\ \/ loop = "created"
           \/ loop = "sleep" /\ slept = Interval
           \/ loop = "recover" /\ slept = RecoveryDelay(impl)
        /\ \A m \in Miners : task[m].st # "running"]_vars

C3_Witness ==
    /\ loop = "gather"
    /\ cycleParity = 0
    /\ delta = {}

\* C4: once stop() has been called no cycle starts.
C4_NoCycleAfterStop == [][CycleBegins => ~stopSignalled]_vars

C4_Witness ==
    /\ stopSignalled
    /\ loop = "exited"
    /\ cycleParity = 1

\* C5 as claimed: the loop ends only when every task of its cycle has finished;
\* none is cancelled.
C5_TasksFinishBeforeExit ==
    LoopEnded => \A m \in Miners : task[m].st \in {"none", "done"}

\* C5 as amended: MonitoringService.stop ends the loop at once and cancels the
\* unfinished tasks of its cycle, which then neither issue a command nor store
\* a sample; the worker threads already executing _send_command are left to
\* run.
C5_StopCancelsTasksNotThreads ==
    [][/\ (impl = "service" /\ is_running /\ ~is_running') =>
            /\ loop' = "cancelled"
            /\ \A m \in Miners :
                /\ task[m].st = "running" => task'[m].st = "cancelled"
                /\ InFlight(m)' = InFlight(m)
       /\ \A m \in Miners : task[m].st = "cancelled" => task'[m] = task[m]]_vars

C5_Witness ==
    /\ impl = "service"
    /\ loop = "cancelled"
    /\ \E m \in Miners : task[m].st = "cancelled" /\ task[m].cmd = 2 /\ orphans[m] = 1

\* C6: no two queries to one device are in flight at the same time.
C6_OneQueryPerDevice == \A m \in Miners : InFlight(m) <= 1

\* C7: the devices a cycle polls are the devices active in the registry when
\* the cycle starts.
C7_ActiveListReadEachCycle ==
    [][CycleBegins =>
        \/ loop' = "recover"
        \/ {m \in Miners : task'[m].st # "none"}
                = {m \in Miners : registry[m] = "active"}]_vars

C7_Witness ==
    /\ loop = "gather"
    /\ delta = {"added", "removed"}

\* The task of device m ends in this step.
TaskEnds(m) == task[m].st = "running" /\ task'[m].st = "done"

\* C14: when the task of a device that has left the registry since the cycle
\* started comes to store its sample, it stores none and ends as a failure,
\* the other tasks and the loop are left as they were, and the cycle, once
\* over, has counted the device among its failures.
C14_MissingMinerFails ==
    /\ [][\A m \in Miners :
            (impl = "service" /\ TaskEnds(m) /\ registry[m] = "absent") =>
                /\ task'[m].result \notin {"True", "stats"}
                /\ samples' = samples
                /\ loop' = loop
                /\ \A n \in Miners \ {m} : task'[n] = task[n]]_vars
    /\ [](\A m \in Miners :
            (impl = "service" /\ loop = "sleep" /\ task[m].result = "not found") =>
                /\ m \notin samples
                /\ failed >= 1
                /\ successful = Cardinality(samples))

C14_Witness ==
    /\ impl = "service"
    /\ loop = "sleep"
    /\ \E m, n \in Miners :
        /\ task[m].result = "not found"
        /\ task[n].result = "True"
    /\ failed = 1
    /\ successful = 1

-----------------------------------------------------------------------------
(* Claims about WhatsminerClient._send_command *)

\* The bytes b begin with a complete JSON document.
BeginsWithDocument(b) == ValueEnd(b, 1, 0) > 0

\* That document.
FirstDocument(b) == SelectSeq(SubSeq(b, 1, ValueEnd(b, 1, 0)), IsNotSpace)

\* C8: every query terminates: whatever the device does, a call of
\* _send_command that has been made eventually returns.
C8_QueryTerminates == (pc \in {"connect", "send", "recv"}) ~> (pc = "returned")

\* C9: a read timeout with a non-empty buffer leads to exactly one final parse
\* of the buffer (and, when it fails, to a MalformedResponse failure); a read
\* timeout with an empty buffer leads to no parse and to a Timeout failure that
\* the caller can tell from the MalformedResponse one.
C9_ReadTimeoutOutcome ==
    /\ (pc = "returned" /\ timedOut) =>
            finalParses = (IF response # <<>> THEN 1 ELSE 0)
    /\ (retEmptyTimeout # "unset" /\ retPartialTimeout # "unset") =>
            retEmptyTimeout # retPartialTimeout

\* C10: once the bytes received so far begin with a complete JSON document the
\* query has returned that document, whatever bytes follow it and however the
\* bytes were split into chunks.
C10_ReturnsFirstDocument ==
    BeginsWithDocument(response) =>
        /\ pc = "returned"
        /\ ret = DataRet(FirstDocument(response))

PortClosed == mode \in {"refuse", "blackhole"}

\* C13: a query against a closed port never gets as far as sending, and ends,
\* after its single connect attempt under the connect timeout, with the
\* failure value and a connection or timeout error logged.
C13_ClosedPortFails ==
    (PortClosed /\ pc # "idle") =>
        /\ pc \in {"connect", "returned"}
        /\ sends = 0
        /\ pc = "returned" =>
            /\ ret = NoneRet
            /\ connects = 1
            /\ log = (IF mode = "refuse" THEN "Socket error" ELSE "Timeout connecting")

C13_Witness ==
    /\ mode = "refuse"
    /\ pc = "returned"
    /\ log = "Socket error"
    /\ sends = 0

-----------------------------------------------------------------------------
(* Claims about the command sequence *)

\* C12: a command sequence that has returned sent all four commands, and what
\* it got for each command is what the device did on that command, whatever
\* it did on the others.
C12_AllCommandsAttempted ==
    seqPc = "done" =>
        /\ attempted = Commands
        /\ \A k \in 1..Len(Commands) : recorded[k] = outcome[k]

-----------------------------------------------------------------------------
(* Claims about scan_network *)

\* The argument is not a network in CIDR notation.
InvalidNetwork == network \in {"badprefix", "notaddress", "empty"}

\* The port of address a accepts connections.
PortOpen(a) == dev[a] \in {"silent", "answers", "unknown"}

\* C15: a scan given an invalid network is rejected with nothing submitted: no
\* address is probed or queried and no pool thread runs.
C15_InvalidCidrRejected ==
    (scPc # "idle" /\ InvalidNetwork) =>
        /\ scPc = "rejected"
        /\ \A a \in Addrs : st[a] = "out" /\ queries[a] = 0
        /\ Busy = 0

C15_Witness ==
    /\ scPc = "rejected"
    /\ network = "badprefix"

\* C16: the list a scan returns has a record for every candidate address, and
\* every record that is not accessible carries a reason.
C16_RecordForEveryAddress ==
    scPc = "done" =>
        \A a \in Addrs :
            /\ records[a].present
            /\ ~records[a].is_accessible => records[a].error # "None"

\* C17: identification starts only when no probe is queued or running, and a
\* finished scan has sent exactly one summary query to every address whose
\* port was open and none to the others.
C17_QueryEachReachableOnce ==
    /\ (\E a \in Addrs : st[a] \in {"submitted", "identifying", "identified"})
            => \A a \in Addrs : st[a] \notin {"queued", "probing"}
    /\ scPc = "done" =>
            \A a \in Addrs : queries[a] = (IF PortOpen(a) THEN 1 ELSE 0)

\* C18: a scan of a valid network always returns a list, whatever is at each
\* address (a probe that raises included), and the record of an address
\* depends on what is at that address alone.
C18_ScanCompletesIndependently ==
    /\ [](scPc = "done" =>
            \A a, b \in Addrs : dev[a] = dev[b] => records[a] = records[b])
    /\ (scPc \in {"probing", "identifying"}) ~> (scPc = "done")

C18_Witness ==
    /\ scPc = "done"
    /\ \E a, b \in Addrs : dev[a] = "error" /\ records[b].present

\* C19: at no moment of a scan do more pool threads run, or more socket
\* operations stand, than the pool size, in either phase.
C19_BoundedConcurrency ==
    /\ Busy <= MaxWorkers
    /\ SocketsInFlight <= MaxWorkers

C19_Witness ==
    /\ Busy = MaxWorkers
    /\ \E a \in Addrs : st[a] = "queued"

\* C20: an address whose port is open and which does not answer the
\* identification is recorded as not accessible, with a reason.
C20_SilentDeviceInaccessible ==
    \A a \in Addrs :
        (st[a] = "identified" /\ dev[a] = "silent") =>
            /\ records[a].present
            /\ ~records[a].is_accessible
            /\ records[a].error # "None"

C20_Witness ==
    /\ scPc = "done"
    /\ \E a \in Addrs : dev[a] = "silent" /\ records[a].present

\* C22: for a prefix length n that leaves more than two addresses in the block
\* (n < 31 for IPv4), the candidates are the 2^(bits - n) - 2 addresses of the
\* block other than its network and broadcast addresses, each listed once.
C22_HostCount ==
    (enPc = "listed" /\ cidr.prefix < AddrBits - 1) =>
        /\ Len(ip_list) = 2^(AddrBits - cidr.prefix) - 2
        /\ \A i, j \in 1..Len(ip_list) : ip_list[i] = ip_list[j] => i = j
        /\ \A i \in 1..Len(ip_list) :
            /\ ip_list[i] > network_obj.address
            /\ ip_list[i] < BroadcastOf(network_obj)
        /\ cidr.address \in network_obj.address..BroadcastOf(network_obj)

C22_Witness ==
    /\ enPc = "listed"
    /\ cidr.prefix = AddrBits - 2
    /\ cidr.address # network_obj.address
    /\ Len(ip_list) = 2

\* C23: a scan of the same network over the same devices returns the records
\* the scan before it returned, whatever the order in which the probes and
\* the identifications of either scan completed.
C23_RescanSameRecords ==
    (scPc = "done" /\ lastRecords # NoEarlierScan) => records = lastRecords

C23_Witness ==
    /\ scPc = "done"
    /\ lastRecords # NoEarlierScan
    /\ \E a, b \in Addrs : records[a].present /\ ~records[b].present

\* C21: an address whose device answers the identification is recorded as
\* accessible, never as inaccessible, without an error, and with manufacturer
\* "Unknown" when the answer matches no vendor pattern.
C21_AnsweringDeviceAccessible ==
    \A a \in Addrs :
        (st[a] = "identified" /\ dev[a] \in {"answers", "unknown"}) =>
            /\ records[a].is_accessible
            /\ records[a].error = "None"
            /\ dev[a] = "unknown" => records[a].manufacturer = "Unknown"

\* A sub-field that is missing or is not a number.
NotNumeric(v) == v.kind \in {"absent", "null", "text"}

\* The output field a key of the device's object is parsed into.
FieldOf(key) ==
    CASE key = "Accepted" -> "accepted_shares"
      [] key = "Rejected" -> "rejected_shares"
      [] key = "Pool Switches" -> "pool_switches"
      [] key = "temperature" -> "temperature"
      [] key = "fan" -> "fan_speed"
      [] key = "power" -> "power_consumption"

\* C24: for a response in the list shape, a sub-field that is missing or not
\* a number makes only its own output field absent: the parser returns its
\* fields, the poll is not failed, the field is absent, and a counter that is
\* a number is still extracted.
C24_BadFieldOnlyAbsent ==
    (pPc = "parsed" /\ pInput.shape = "list") =>
        /\ PollAfterParse(pOut) = "sample"
        /\ pOut.kind = "fields"
        /\ (pFunc = "summary") =>
            /\ (NotNumeric(pInput.object["GHS 5s"])
                    /\ NotNumeric(pInput.object["GHS av"])) =>
                    pOut.hash_rate = Null
            /\ \A key \in {"Accepted", "Rejected", "Pool Switches"} :
                    IF NotNumeric(pInput.object[key])
                    THEN pOut[FieldOf(key)] = Null
                    ELSE pOut[FieldOf(key)] = Num(pInput.object[key].n)
        /\ (pFunc = "stats") =>
                \A key \in StatsKeys :
                    NotNumeric(pInput.object[key]) => pOut[FieldOf(key)] = Null

\* Two results of a parser hold the same parsed fields.
SameFields(a, b) ==
    /\ a.kind = b.kind
    /\ (a.kind = "fields") =>
            \A f \in (DOMAIN a) \ {"raw_data"} : a[f] = b[f]

\* C25: the fields parsed from a response whose category key holds the bare
\* object are the fields parsed from the response whose category key holds a
\* one-element list with that object.
C25_BothShapesSameFields ==
    (pPc = "parsed" /\ pInput.shape = "list" /\ pOut.kind = "fields") =>
        SameFields(Parse(pFunc, [pInput EXCEPT !.shape = "bare"]), pOut)

\* C26: the parsed hash rate is the raw "GHS 5s" number divided by 1000.
C26_HashRateDividedBy1000 ==
    (pPc = "parsed" /\ pFunc = "summary" /\ pOut.kind = "fields"
            /\ Has(pOut.raw_data, "GHS 5s")) =>
        pOut.hash_rate.n * 1000 = pOut.raw_data["GHS 5s"].n

\* C27: when the summary object the parser reads has "GHS 5s", the hash rate
\* is that field's number, whether or not "GHS av" is there too; "GHS av" is
\* the source only when "GHS 5s" is absent.
C27_ShortWindowPreferred ==
    (pPc = "parsed" /\ pFunc = "summary" /\ pOut.kind = "fields") =>
        /\ Has(pOut.raw_data, "GHS 5s") =>
                pOut.hash_rate.n = pOut.raw_data["GHS 5s"].n
        /\ (~Has(pOut.raw_data, "GHS 5s") /\ Has(pOut.raw_data, "GHS av")) =>
                pOut.hash_rate.n = pOut.raw_data["GHS av"].n

C27_Witness ==
    /\ pPc = "parsed"
    /\ pFunc = "summary"
    /\ pOut.kind = "fields"
    /\ Has(pInput.object, "GHS 5s")
    /\ Has(pInput.object, "GHS av")
    /\ pInput.object["GHS 5s"].n # pInput.object["GHS av"].n
    /\ pOut.hash_rate.n = pInput.object["GHS 5s"].n

\* The largest number of a reading given as one number, as a string of
\* numbers, or as a list of numbers.
MaxReading(v) == IF v.kind = "num" THEN v.n ELSE Max(v.items)

\* C28: a temperature or fan reading given as a single number, a
\* space-delimited string of numbers or a non-empty list of numbers is parsed
\* to the largest of the numbers.
C28_SensorMaximum ==
    \A key \in {"temperature", "fan"} :
        (/\ pPc = "parsed"
         /\ pFunc = "stats"
         /\ pInput.shape = "list"
         /\ \A other \in StatsKeys \ {key} : ~Has(pInput.object, other)
         /\ \/ pInput.object[key].kind \in {"num", "tokens"}
            \/ pInput.object[key].kind = "list" /\ pInput.object[key].items # <<>>) =>
            /\ pOut.kind = "fields"
            /\ pOut[FieldOf(key)] = Num(MaxReading(pInput.object[key]))

\* The columns of a sample that are never negative.
NonNegativeFields(func) ==
    IF func = "summary" THEN {"hash_rate", "accepted_shares", "rejected_shares"}
    ELSE {"fan_speed", "power_consumption"}

\* C29: in the sample built from a parser's result, hash rate, accepted and
\* rejected shares, fan speed and power consumption are absent or not
\* negative.
C29_NonNegativeFields ==
    (pPc = "parsed" /\ PollAfterParse(pOut) = "sample") =>
        \A f \in NonNegativeFields(pFunc) :
            \/ SampleField(pOut, f) = Null
            \/ SampleField(pOut, f).n >= 0

-----------------------------------------------------------------------------
(* Claims about start() and stop() *)

\* C31: whatever the order of start() and stop() calls, no loop task that has
\* not ended is ever replaced by a new one and a stopped service has no live
\* loop task, so at most one loop is active; a step taken while the service is
\* running creates no loop task, and a step that leaves the service stopped
\* changes neither the loop task nor the poll tasks.
C31_AtMostOneLoop ==
    /\ [](~stale /\ (LoopAlive => is_running))
    /\ [][/\ is_running => ~(loop' = "created" /\ loop # "created")
          /\ (~is_running /\ ~is_running') => (loop' = loop /\ task' = task)]_vars

C31_Witness ==
    /\ starts = MaxStarts
    /\ is_running
    /\ loop = "gather"
    /\ lastCall = "start ignored"

-----------------------------------------------------------------------------
(* Claims about the connections of a poll task *)

\* C32: the sockets one poll task opens and closes are, in order, those of
\* summary, stats, pools and devs, each opened once and closed before the next
\* is opened, so the task never has two sockets open; a get_all_data that has
\* returned has opened and closed all four.
C32_OneConnectionAtATime ==
    /\ Cardinality(gaOpen) <= 1
    /\ \A i \in 1..Len(gaTrace) :
        gaTrace[i] = <<IF i % 2 = 1 THEN "open" ELSE "close", Commands[(i + 1) \div 2]>>
    /\ gaPc = "done" => (Len(gaTrace) = 2 * Len(Commands) /\ gaOpen = {})

C32_Witness ==
    /\ gaPc = "done"
    /\ gaRes[1] = "None"
    /\ gaRes[2] = "data"
    /\ gaRes[Len(Commands)] = "None"

-----------------------------------------------------------------------------
(* Claims about what poll_miner stores *)

\* C33: a poll_miner that has returned False has added no telemetry row and
\* left last_seen as it was; one that has returned True has added exactly one
\* row and updated last_seen once; the row and last_seen are stored together
\* at every moment; and a poll_miner that has returned holds no open session
\* and nothing pending.
C33_AllOrNothing ==
    /\ rows - rowsBefore = lastSeen - seenBefore
    /\ pmPc = "returned" =>
        /\ session # "open"
        /\ ~pending
        /\ pmRet = "False" => (rows = rowsBefore /\ lastSeen = seenBefore)
        /\ pmRet = "True" => (rows = rowsBefore + 1 /\ lastSeen = seenBefore + 1)

C33_Witness ==
    /\ pmPc = "returned"
    /\ pmRet = "False"
    /\ session = "closed"
    /\ allData = "answers"
    /\ rows = 1

-----------------------------------------------------------------------------
(* Claims about the agent's registry *)

\* C34: while the for loop of poll_all_miners runs, no step changes the
\* registry, whatever the scan loop is doing; and the poll tasks a cycle
\* gathers are those of the keys the registry had when the for loop began.
C34_RegistryStableWhileIterating ==
    /\ [][(agPoll = "iterating") => (discovered_miners' = discovered_miners)]_vars
    /\ [](agPoll = "iterating" => (discovered_miners = regAtStart
                                    /\ pollTasks \cup todo = Keys(regAtStart)))
    /\ [](agPoll = "gather" => pollTasks = Keys(regAtStart))

C34_Witness ==
    /\ agPoll = "iterating"
    /\ agScan = "scanning"
    /\ pollTasks # {}
    /\ todo # {}

\* C37: an address a scan has added is in the registry ever after, under a
\* single key, and every later poll cycle has a poll task for it, whether or
\* not later scans found it.
C37_RegistryOnlyGrows ==
    /\ everAdded \subseteq Keys(discovered_miners)
    /\ \A e, f \in discovered_miners : e[1] = f[1] => e = f
    /\ agPoll = "gather" => dueAtStart \subseteq pollTasks

C37_Witness ==
    /\ agPoll = "gather"
    /\ scanNo = MaxScans
    /\ \E e, f \in discovered_miners : e[2] = 1 /\ f[2] = MaxScans
    /\ pollTasks = Miners

-----------------------------------------------------------------------------
(* Claims about the result list of scan_network *)

\* C35: at every moment of a scan no address has more than one dict in the
\* result, and the result of a finished scan holds exactly one dict for each
\* address whose probe succeeded and none for the others, whatever the order
\* in which the pool threads finished.
C35_OneRecordPerOpenAddress ==
    /\ \A a \in Addrs : appends[a] <= 1 /\ (records[a].present <=> appends[a] = 1)
    /\ scPc = "done" =>
        \A a \in Addrs : appends[a] = (IF CheckPort(dev[a]) THEN 1 ELSE 0)

C35_Witness ==
    /\ scPc = "done"
    /\ \E a, b, c \in Addrs :
        /\ a # b /\ CheckPort(dev[a]) /\ CheckPort(dev[b]) /\ ~CheckPort(dev[c])
        /\ appends[a] = 1 /\ appends[b] = 1 /\ appends[c] = 0

-----------------------------------------------------------------------------
(* Claims about the executors of the service *)

\* C36: during a polling cycle of the service the number of device connections
\* open at the same time never exceeds settings.max_workers.
C36_ConnectionsWithinMaxWorkers == Cardinality(OpenConnections) <= max_workers

-----------------------------------------------------------------------------
(* Claims about the ingestion of discovered miners *)

\* C38: after any sequence of add_discovered_miners and sync_agent_data
\* requests, lists that repeat an address included, no two rows of the miners
\* table share (ip_address, port).
C38_NoSharedAddress == \A m \in Miners : minerRows[m] <= 1

-----------------------------------------------------------------------------
(* Claims about the agent's extraction *)

\* The fields of a telemetry sample that come from a summary response, and
\* those that come from a stats response.
FieldsOf(func) ==
    IF func = "summary"
    THEN {"hash_rate", "accepted_shares", "rejected_shares", "pool_switches"}
    ELSE {"temperature", "fan_speed"}

\* C39: from the same response the agent's poll_miner and the central parser
\* produce the same hash rate, accepted and rejected counters, pool-switch
\* counter, temperature and fan speed, whenever the central parser produces
\* a sample.
C39_AgentAgreesWithCentral ==
    (pPc = "parsed" /\ pOut.kind # "raises") =>
        \A f \in FieldsOf(pFunc) : SampleField(agOut, f) = SampleField(pOut, f)

====
